---------------------------- MODULE Spec2Model ----------------------------
(***************************************************************************)
(* SyncReplication (src/realm/sync/instruction_replication.cpp): the       *)
(* change-capture layer that turns the storage engine's mutation callbacks *)
(* inside one write transaction into a changeset of instructions.          *)
(*                                                                         *)
(* Strings are sequences of characters, so that begins_with and the        *)
(* stripping of the "class_" prefix are computed, not assumed.  An         *)
(* InternString is the 1-based position of a string in the changeset's     *)
(* interning table.  The storage engine (tables, columns, rows) is the     *)
(* fixed schema described by the operators of the section "storage".       *)
(***************************************************************************)
EXTENDS Integers, Sequences, FiniteSets, TLC

VARIABLES
    strings,               \* m_encoder: the interning table
    buffer,                \* m_encoder: the string/binary byte buffer
    instrs,                \* m_encoder: the instructions of the changeset
    m_last_table,          \* selection cache: table
    m_last_object,         \* selection cache: object key
    m_last_field,          \* selection cache: column key
    m_last_class_name,     \* selection cache: interned class name
    m_last_primary_key,    \* selection cache: identity of m_last_object
    m_last_field_name,     \* selection cache: interned name of m_last_field
    m_table_being_erased,  \* name given to prepare_erase_table
    m_short_circuit,       \* replication is short-circuited
    phase,                 \* "Idle", or "Recording" inside a write transaction
    prepared_in_txn,       \* history: prepare_erase_table ran in this transaction
    last,                  \* history: the last call, its arguments and outcome
    capacity               \* the instructions one changeset may hold

vars == <<strings, buffer, instrs, m_last_table, m_last_object, m_last_field,
          m_last_class_name, m_last_primary_key, m_last_field_name,
          m_table_being_erased, m_short_circuit, phase, prepared_in_txn, last,
          capacity>>

\* The number of instructions one changeset may hold in the model.
MaxInstrs == 2

\* The same for the specification of the object callbacks alone, where a
\* changeset holds an object creation and two later instructions.
MaxChain == 3

-----------------------------------------------------------------------------
(* Strings *)

ClassPrefix == <<"c", "l", "a", "s", "s", "_">>
sEmpty == <<>>
sId == <<"i", "d">>
sName == <<"n", "a", "m", "e">>
sFriend == <<"f", "r", "i", "e", "n", "d">>
sItems == <<"i", "t", "e", "m", "s">>
sAge == <<"a", "g", "e">>
sOwner == <<"o", "w", "n", "e", "r">>
sPals == <<"p", "a", "l", "s">>
sTags == <<"t", "a", "g", "s">>
sX == <<"x">>
sSub == <<"s", "u", "b">>
sV == <<"v">>
sAnn == <<"A", "n", "n">>
sK == <<"k">>
sKin == <<"k", "i", "n">>

begins_with(s, prefix) ==
    /\ Len(s) >= Len(prefix)
    /\ SubSeq(s, 1, Len(prefix)) = prefix

\* realm/sync/object.hpp: the class name is the table name without "class_".
table_name_to_class_name(table_name) ==
    SubSeq(table_name, Len(ClassPrefix) + 1, Len(table_name))

-----------------------------------------------------------------------------
(* Storage: the tables, columns and rows the callbacks are about *)

tPerson == ClassPrefix \o <<"P">>   \* primary key "id": Int, not nullable
tDog == ClassPrefix \o <<"D">>      \* no primary key column
tAddr == ClassPrefix \o <<"E">>     \* embedded
tMeta == <<"p", "k">>               \* not replicated
tBlob == <<"b">>                    \* not replicated, embedded
tCat == ClassPrefix \o <<"C">>      \* primary key "id": String, nullable
tBird == ClassPrefix \o <<"B">>     \* primary key "id": ObjectId, not nullable
tFlag == ClassPrefix \o <<"F">>     \* primary key "id": Bool, not nullable
Tables == {tPerson, tDog, tAddr, tMeta, tBlob, tCat, tBird}

NullTable == <<>>     \* nullptr
NullObjKey == -1      \* ObjKey()
NullColKey == 0       \* ColKey()
npos == 0             \* InternString::npos
UnresolvedKey == -2   \* the key of a tombstone

is_unresolved(key) == key <= -2

is_embedded(table) == table \in {tAddr, tBlob}

NoColumn ==
    [name |-> sEmpty, type |-> "None", list |-> FALSE, dictionary |-> FALSE,
     nullable |-> FALSE, target |-> NullTable]

Col(name, type, list, dictionary, nullable, target) ==
    [name |-> name, type |-> type, list |-> list, dictionary |-> dictionary,
     nullable |-> nullable, target |-> target]

\* The columns of each table, by column key.
Columns(table) ==
    IF table = tPerson THEN
        <<Col(sId, "Int", FALSE, FALSE, FALSE, NullTable),
          Col(sName, "String", FALSE, FALSE, TRUE, NullTable),
          Col(sFriend, "Link", FALSE, FALSE, TRUE, tDog),
          Col(sItems, "LinkList", TRUE, FALSE, FALSE, tAddr)>>
    ELSE IF table = tDog THEN
        <<Col(sAge, "Int", FALSE, FALSE, TRUE, NullTable),
          Col(sOwner, "Link", FALSE, FALSE, TRUE, tPerson),
          Col(sPals, "LinkList", TRUE, FALSE, FALSE, tPerson),
          Col(sTags, "Int", FALSE, TRUE, TRUE, NullTable),
          Col(sKin, "Link", FALSE, TRUE, TRUE, tPerson)>>
    ELSE IF table = tAddr THEN
        <<Col(sX, "Int", FALSE, FALSE, TRUE, NullTable),
          Col(sSub, "Link", FALSE, FALSE, TRUE, tAddr),
          Col(sTags, "Int", FALSE, TRUE, TRUE, NullTable)>>
    ELSE IF table = tCat THEN
        <<Col(sId, "String", FALSE, FALSE, TRUE, NullTable)>>
    ELSE IF table = tBird THEN
        <<Col(sId, "ObjectId", FALSE, FALSE, FALSE, NullTable)>>
    ELSE IF table = tFlag THEN
        <<Col(sId, "Bool", FALSE, FALSE, FALSE, NullTable)>>
    ELSE
        <<Col(sV, "Int", FALSE, FALSE, TRUE, NullTable)>>  \* tMeta, tBlob

ColKeys(table) == 1..Len(Columns(table))
get_column(table, col) == Columns(table)[col]
get_column_name(table, col) == get_column(table, col).name
get_column_type(table, col) == get_column(table, col).type
get_link_target(table, col) == get_column(table, col).target

get_primary_key_column(table) ==
    IF table \in {tPerson, tCat, tBird, tFlag} THEN 1 ELSE NullColKey

\* Mixed values handed to the callbacks.
MixedNull == [type |-> "Null", int |-> 0, str |-> sEmpty, key |-> NullObjKey]
MixedInt(i) == [type |-> "Int", int |-> i, str |-> sEmpty, key |-> NullObjKey]
MixedString(s) == [type |-> "String", int |-> 0, str |-> s, key |-> NullObjKey]
MixedBool == [type |-> "Bool", int |-> 1, str |-> sEmpty, key |-> NullObjKey]
MixedLink(k) == [type |-> "Link", int |-> 0, str |-> sEmpty, key |-> k]
MixedObjectId(i) ==
    [type |-> "ObjectId", int |-> i, str |-> sEmpty, key |-> NullObjKey]
value_is_null(value) == value.type = "Null"

\* The value kinds for which as_payload has no payload (lines 85-93), and a
\* value of such a kind.
LegacyTypes == {"Mixed", "OldTable", "OldDateTime", "LinkList"}
MixedOfType(t) == [type |-> t, int |-> 0, str |-> sEmpty, key |-> NullObjKey]

\* The primary key value stored in a row; a tombstone keeps its key.  Row 2
\* of tCat has a null primary key.  Row 4 of tPerson reads as null although
\* its key column is not nullable: the broken invariant of the storage
\* engine, which only the specification SpecBrokenRow addresses.
PkValue(table, key) ==
    IF table = tCat THEN (IF key = 1 THEN MixedString(sAnn) ELSE MixedNull)
    ELSE IF table = tBird THEN MixedObjectId(3)
    ELSE IF table = tFlag THEN MixedBool
    ELSE IF key = 4 THEN MixedNull
    ELSE IF key = 1 THEN MixedInt(7)
    ELSE IF key = 2 THEN MixedInt(42)
    ELSE MixedInt(9)

\* Table::get_object_id: the engine's stable surrogate of a row.
get_object_id(table, key) == 100 + key

\* Embedded rows and their owners: row 1 of tAddr is element 3 of the list
\* "items" of row 1 of tPerson; row 2 of tAddr is the "sub" of row 1 of tAddr.
Owner(table, key) ==
    IF key = 1
    THEN [table |-> tPerson, key |-> 1, field |-> 4, index |-> 3]
    ELSE [table |-> tAddr, key |-> 1, field |-> 2, index |-> 0]

\* Obj::traverse_path: the owners of an embedded row, the top object first.
RECURSIVE traverse_path(_, _)
traverse_path(table, key) ==
    LET o == Owner(table, key) IN
    IF is_embedded(o.table)
    THEN Append(traverse_path(o.table, o.key), o)
    ELSE <<o>>

-----------------------------------------------------------------------------
(* Instruction values *)

\* Identities (Instruction::PrimaryKey) and the empty optional of the cache.
NoKey == [kind |-> "none", int |-> 0]
NullPk == [kind |-> "Null", int |-> 0]
Int64Pk(i) == [kind |-> "Int64", int |-> i]
InternStringPk(h) == [kind |-> "InternString", int |-> h]
ObjectIdPk(i) == [kind |-> "ObjectId", int |-> i]
GlobalKeyPk(g) == [kind |-> "GlobalKey", int |-> g]

NoRange == [offset |-> 0, size |-> 0]
NullPayload ==
    [type |-> "Null", int |-> 0, range |-> NoRange, target_table |-> npos,
     target |-> NoKey]
IntPayload(i) == [NullPayload EXCEPT !.type = "Int", !.int = i]
BoolPayload(i) == [NullPayload EXCEPT !.type = "Bool", !.int = i]
StringPayload(r) == [NullPayload EXCEPT !.type = "String", !.range = r]
LinkPayload(t, pk) ==
    [NullPayload EXCEPT !.type = "Link", !.target_table = t, !.target = pk]
ObjectValuePayload == [NullPayload EXCEPT !.type = "ObjectValue"]

FieldComponent(h) == [kind |-> "field", int |-> h]
IndexComponent(i) == [kind |-> "index", int |-> i]

\* An instruction before its fields are filled in.
NoInstr ==
    [type |-> "None", table |-> npos, object |-> NoKey, field |-> npos,
     path |-> <<>>, value |-> NullPayload, is_default |-> FALSE,
     prior_size |-> 0, ndx_2 |-> 0, spec |-> <<>>]
Instr(type) == [NoInstr EXCEPT !.type = type]

-----------------------------------------------------------------------------
(* The encoder and the selection cache, as one value threaded through a call.
   A step that needs the result of an earlier one takes it as a parameter. *)

\* The emitter's state at the start of a call; resolved counts the calls of
\* primary_key_for_object made during the call.
Cur ==
    [strings |-> strings, buffer |-> buffer, instrs |-> instrs,
     m_last_table |-> m_last_table, m_last_object |-> m_last_object,
     m_last_field |-> m_last_field, m_last_class_name |-> m_last_class_name,
     m_last_primary_key |-> m_last_primary_key,
     m_last_field_name |-> m_last_field_name,
     m_table_being_erased |-> m_table_being_erased,
     prepared_in_txn |-> prepared_in_txn,
     resolved |-> 0,
     exc |-> "none"]

Ret(st, ret) == [st |-> st, ret |-> ret]
Path(st, instr) == [st |-> st, instr |-> instr]
Failed(r) == r.st.exc # "none"

\* throw TransformError{"Unsupported instruction"}
unsupported_instruction(st) == [st EXCEPT !.exc = "unsupported"]

\* REALM_ASSERT / REALM_TERMINATE: the process ends (a build that compiles
\* its assertions).
terminate(st) == [st EXCEPT !.exc = "fatal"]

\* ChangesetEncoder::intern_string: the handle of a string, added if new.
intern_string(st, str) ==
    IF \E i \in 1..Len(st.strings) : st.strings[i] = str
    THEN Ret(st, CHOOSE i \in 1..Len(st.strings) : st.strings[i] = str)
    ELSE Ret([st EXCEPT !.strings = Append(@, str)], Len(st.strings) + 1)

\* ChangesetEncoder::add_string_range: the bytes appended to the buffer.
add_string_range(st, str) ==
    Ret([st EXCEPT !.buffer = @ \o str],
        [offset |-> Len(st.buffer), size |-> Len(str)])

\* ChangesetEncoder: the instruction appended to the changeset.
emit(st, instr) == [st EXCEPT !.instrs = Append(@, instr)]

\* reset that leaves the cached table in place.
reset_keeps_table(st) ==
    [st EXCEPT !.strings = <<>>, !.buffer = <<>>, !.instrs = <<>>,
               !.m_last_object = NullObjKey,
               !.m_last_field = NullColKey,
               !.m_last_class_name = npos,
               !.m_last_primary_key = NullPk,
               !.m_last_field_name = npos]

\* reset, lines 21-31
reset(st) ==
    [st EXCEPT !.strings = <<>>, !.buffer = <<>>, !.instrs = <<>>,
               !.m_last_table = NullTable,
               !.m_last_object = NullObjKey,
               !.m_last_field = NullColKey,
               !.m_last_class_name = npos,
               !.m_last_primary_key = NullPk,
               !.m_last_field_name = npos]

\* reset() called where select_table means m_last_primary_key.reset().
select_other_table_resets(cn, table) == Ret(reset(cn.st), TRUE)

\* select_table that does not clear the cached object on another table.
select_other_table_keeps_object(cn, table) ==
    Ret([cn.st EXCEPT !.m_last_class_name = cn.ret,
                      !.m_last_table = table,
                      !.m_last_field = NullColKey],
        TRUE)

\* emit_class_name that interns the name of the table as it is.
emit_class_name_unstripped(st, table_name) ==
    intern_string(st, table_name)

emit_class_name(st, table_name) ==
    intern_string(st, table_name_to_class_name(table_name))

\* select_table, lines 593-598: cn is the interned class name.
select_other_table(cn, table) ==
    Ret([cn.st EXCEPT !.m_last_class_name = cn.ret,
                      !.m_last_table = table,
                      !.m_last_field = NullColKey,
                      !.m_last_object = NullObjKey,
                      !.m_last_primary_key = NoKey],
        TRUE)

\* select_table that answers false for the table it has cached.
select_table_miss(st, table) ==
    IF m_short_circuit THEN Ret(st, FALSE)
    ELSE IF table = st.m_last_table THEN Ret(st, FALSE)
    ELSE IF begins_with(table, ClassPrefix)
    THEN select_other_table(emit_class_name(st, table), table)
    ELSE Ret(st, FALSE)

\* select_table that does not look at the name of the table.
select_table_any_name(st, table) ==
    IF m_short_circuit THEN Ret(st, FALSE)
    ELSE IF table = st.m_last_table THEN Ret(st, TRUE)
    ELSE select_other_table(emit_class_name(st, table), table)

\* select_table that does not look at the short-circuit flag.
select_table_short_circuited(st, table) ==
    IF table = st.m_last_table THEN Ret(st, TRUE)
    ELSE IF begins_with(table, ClassPrefix)
    THEN select_other_table(emit_class_name(st, table), table)
    ELSE Ret(st, FALSE)

select_table(st, table) ==
    IF m_short_circuit THEN Ret(st, FALSE)
    ELSE IF table = st.m_last_table THEN Ret(st, TRUE)
    ELSE IF begins_with(table, ClassPrefix)
    THEN select_other_table(emit_class_name(st, table), table)
    ELSE Ret(st, FALSE)

\* Obj::is_null(pk_col)
obj_is_null(table, key, col) == value_is_null(PkValue(table, key))

interned_primary_key(r) == Ret(r.st, InternStringPk(r.ret))

\* primary_key_for_object, lines 614-641: sel is the result of select_table.
\* primary_key_for_object that does not look at the primary key column.
primary_key_of_selected_global(sel, table, key, pk_col) ==
    IF ~sel.ret THEN Ret(terminate(sel.st), NoKey)
    ELSE Ret(sel.st, GlobalKeyPk(get_object_id(table, key)))

primary_key_of_selected(sel, table, key, pk_col) ==
    IF ~sel.ret THEN Ret(terminate(sel.st), NoKey)
    ELSE IF pk_col # NullColKey THEN
        IF obj_is_null(table, key, pk_col) THEN Ret(sel.st, NullPk)
        ELSE IF get_column_type(table, pk_col) = "Int"
        THEN Ret(sel.st, Int64Pk(PkValue(table, key).int))
        ELSE IF get_column_type(table, pk_col) = "String"
        THEN interned_primary_key(intern_string(sel.st, PkValue(table, key).str))
        ELSE IF get_column_type(table, pk_col) = "ObjectId"
        THEN Ret(sel.st, ObjectIdPk(PkValue(table, key).int))
        ELSE Ret(unsupported_instruction(sel.st), NoKey)
    ELSE Ret(sel.st, GlobalKeyPk(get_object_id(table, key)))

primary_key_for_object(st, table, key) ==
    primary_key_of_selected(select_table([st EXCEPT !.resolved = @ + 1], table),
                            table, key, get_primary_key_column(table))

\* populate_path_instr that caches the column key without its name.
cache_field_stale_name(fn, instr, field) ==
    Path([fn.st EXCEPT !.m_last_field = field], [instr EXCEPT !.field = fn.ret])

\* populate_path_instr, lines 705-707: fn is the interned column name.
cache_field(fn, instr, field) ==
    Path([fn.st EXCEPT !.m_last_field = field, !.m_last_field_name = fn.ret],
         [instr EXCEPT !.field = fn.ret])

\* populate_path_instr, lines 701-708
populate_field(st, instr, table, field) ==
    IF st.m_last_field = field
    THEN Path(st, [instr EXCEPT !.field = st.m_last_field_name])
    ELSE cache_field(intern_string(st, get_column_name(table, field)), instr, field)

\* populate_path_instr, lines 696-698: pk is the resolved identity.
cache_object(pk, instr, table, key, field) ==
    IF Failed(pk) THEN Path(pk.st, instr)
    ELSE populate_field([pk.st EXCEPT !.m_last_object = key,
                                      !.m_last_primary_key = pk.ret],
                        [instr EXCEPT !.object = pk.ret], table, field)

\* populate_path_instr that resolves the identity on every call.
populate_object_uncached(st, instr, table, key, field) ==
    cache_object(primary_key_for_object(st, table, key), instr, table, key, field)

\* populate_path_instr that takes the cached identity for any object of the
\* cached table.
populate_object_stale(st, instr, table, key, field) ==
    IF st.m_last_object # NullObjKey
    THEN populate_field(st, [instr EXCEPT !.object = st.m_last_primary_key],
                        table, field)
    ELSE cache_object(primary_key_for_object(st, table, key), instr, table, key,
                      field)

\* populate_path_instr, lines 692-699
populate_object(st, instr, table, key, field) ==
    IF st.m_last_object = key
    THEN populate_field(st, [instr EXCEPT !.object = st.m_last_primary_key],
                        table, field)
    ELSE cache_object(primary_key_for_object(st, table, key), instr, table, key,
                      field)

\* populate_path_instr, lines 687-690: sel is the result of select_table.
populate_selected(sel, instr, table, key, field) ==
    IF ~sel.ret THEN Path(terminate(sel.st), instr)
    ELSE populate_object(sel.st, [instr EXCEPT !.table = sel.st.m_last_class_name],
                         table, key, field)

\* populate_path_instr for a table that is not embedded.
populate_top(st, instr, table, key, field) ==
    populate_selected(select_table(st, table), instr, table, key, field)

push_component(p, component) ==
    Path(p.st, [p.instr EXCEPT !.path = Append(@, component)])

push_field_name(fn, instr) ==
    Path(fn.st, [instr EXCEPT !.path = Append(@, FieldComponent(fn.ret))])

\* The visitor of populate_path_instr, lines 661-672, for the owner o.
visit_element(st, instr, o) ==
    IF is_embedded(o.table)
    THEN push_field_name(intern_string(st, get_column_name(o.table, o.field)), instr)
    ELSE populate_top(st, instr, o.table, o.key, o.field)

\* The visitor without the test of lines 673: an index after every level.
visit_index_always(p, o) ==
    IF ~Failed(p) THEN push_component(p, IndexComponent(o.index)) ELSE p

\* The visitor, lines 673-675.
visit_index(p, o) ==
    IF ~Failed(p) /\ get_column(o.table, o.field).list
    THEN push_component(p, IndexComponent(o.index))
    ELSE p

\* Obj::traverse_path: the visitor applied to the owners in order.
RECURSIVE visit_path(_, _)
visit_path(p, owners) ==
    IF owners = <<>> \/ Failed(p) THEN p
    ELSE visit_path(visit_index(visit_element(p.st, p.instr, Head(owners)),
                                Head(owners)),
                    Tail(owners))

\* populate_path_instr, lines 680-683: the field of the embedded object.
populate_leaf(p, table, field) ==
    IF Failed(p) THEN p
    ELSE push_field_name(intern_string(p.st, get_column_name(table, field)),
                         p.instr)

populate_path_instr(st, instr, table, key, field) ==
    IF key = NullObjKey \/ field = NullColKey THEN Path(terminate(st), instr)
    ELSE IF is_embedded(table)
    THEN populate_leaf(visit_path(Path(st, instr), traverse_path(table, key)),
                       table, field)
    ELSE populate_top(st, instr, table, key, field)

push_index(p, ndx) ==
    IF Failed(p) THEN p ELSE push_component(p, IndexComponent(ndx))

\* populate_path_instr(instr, list, ndx): the element index ends the path.
populate_path_instr_ndx(st, instr, list, ndx) ==
    push_index(populate_path_instr(st, instr, list.table, list.key, list.col), ndx)

string_payload(r) == Ret(r.st, StringPayload(r.ret))

\* as_payload(Mixed): the values that need no table.
as_payload_plain(st, value) ==
    IF value_is_null(value) THEN Ret(st, NullPayload)
    ELSE IF value.type = "Int" THEN Ret(st, IntPayload(value.int))
    ELSE IF value.type = "Bool" THEN Ret(st, BoolPayload(value.int))
    ELSE IF value.type = "String"
    THEN string_payload(add_string_range(st, value.str))
    ELSE IF value.type = "ObjectId"
    THEN Ret(st, [NullPayload EXCEPT !.type = "ObjectId", !.int = value.int])
    ELSE Ret(terminate(st), NullPayload)  \* links, lines 79-84; LegacyTypes

link_payload(pk, target_table) == Ret(pk.st, LinkPayload(target_table, pk.ret))

\* as_payload, lines 118-121: cn is the interned class name of the target.
link_to(cn, target_table, key) ==
    link_payload(primary_key_for_object(cn.st, target_table, key), cn.ret)

\* as_payload without the test of lines 113-116.
as_payload_link_always(st, table, col_key, value) ==
    IF value_is_null(value) THEN Ret(st, NullPayload)
    ELSE IF value.type = "Link"
    THEN link_to(emit_class_name(st, get_link_target(table, col_key)),
                 get_link_target(table, col_key), value.key)
    ELSE as_payload_plain(st, value)

as_payload(st, table, col_key, value) ==
    IF value_is_null(value) THEN Ret(st, NullPayload)
    ELSE IF value.type = "Link" THEN
        IF is_embedded(get_link_target(table, col_key))
        THEN Ret(st, ObjectValuePayload)
        ELSE link_to(emit_class_name(st, get_link_target(table, col_key)),
                     get_link_target(table, col_key), value.key)
    ELSE as_payload_plain(st, value)

\* The instruction emitted with the class name that the cache holds once the
\* value is translated.
emit_payload_reselected(v, instr) ==
    IF Failed(v) THEN v.st
    ELSE emit(v.st, [instr EXCEPT !.value = v.ret,
                                  !.table = v.st.m_last_class_name])

\* The value of a path instruction is translated, then it is emitted.
emit_payload(v, instr) ==
    IF Failed(v) THEN v.st ELSE emit(v.st, [instr EXCEPT !.value = v.ret])

emit_with_payload(p, table, col, value) ==
    IF Failed(p) THEN p.st
    ELSE emit_payload(as_payload(p.st, table, col, value), p.instr)

emit_path_instr(p) == IF Failed(p) THEN p.st ELSE emit(p.st, p.instr)

\* Instruction::Update::is_array_update: the path ends with an index.
is_array_update(instr) ==
    /\ instr.path # <<>>
    /\ instr.path[Len(instr.path)].kind = "index"

\* REALM_ASSERT(instr.is_array_update()), line 407, and
\* REALM_ASSERT(!instr.is_array_update()), line 557.
assert_array_update(p, expected) ==
    IF Failed(p) \/ is_array_update(p.instr) = expected THEN p
    ELSE Path(terminate(p.st), p.instr)

-----------------------------------------------------------------------------
(* Calls: the history of the last call, and the state a call leaves *)

Call(op, table, key, col, value, passthrough) ==
    [op |-> op, table |-> table, key |-> key, col |-> col, value |-> value,
     passthrough |-> passthrough, size |-> 0, entry |-> MixedNull,
     ndx |-> 0, variant |-> ""]

\* The state after a call that ran from Cur to st.
Finish(st, call) ==
    /\ strings' = st.strings
    /\ buffer' = st.buffer
    /\ instrs' = st.instrs
    /\ m_last_table' = st.m_last_table
    /\ m_last_object' = st.m_last_object
    /\ m_last_field' = st.m_last_field
    /\ m_last_class_name' = st.m_last_class_name
    /\ m_last_primary_key' = st.m_last_primary_key
    /\ m_last_field_name' = st.m_last_field_name
    /\ m_table_being_erased' = st.m_table_being_erased
    /\ prepared_in_txn' = st.prepared_in_txn
    /\ capacity' = capacity
    /\ last' = [op |-> call.op, table |-> call.table, key |-> call.key,
                col |-> call.col, value |-> call.value,
                passthrough |-> call.passthrough,
                size |-> call.size,
                entry |-> call.entry,
                ndx |-> call.ndx,
                variant |-> call.variant,
                outcome |-> IF st.exc = "none" THEN "ok" ELSE st.exc,
                resolved |-> st.resolved,
                emitted |-> IF Len(st.instrs) >= Len(instrs)
                            THEN Len(st.instrs) - Len(instrs) ELSE 0]

\* The storage engine reports mutations inside a write transaction, one call
\* at a time; a call that threw ends the transaction, and a failed assertion
\* ends the process.
CanCall ==
    /\ phase = "Recording"
    /\ last.outcome = "ok"
    /\ Len(instrs) < capacity

EmitterCall(st, call) ==
    /\ CanCall
    /\ Finish(st, call)
    /\ UNCHANGED <<m_short_circuit, phase>>

-----------------------------------------------------------------------------
(* Transaction boundaries *)

new_transaction(st) == [st EXCEPT !.prepared_in_txn = FALSE]

do_initiate_transact ==
    /\ phase = "Idle"
    /\ last.outcome # "fatal"
    /\ Finish(new_transaction(reset(Cur)),
              Call("do_initiate_transact", NullTable, NullObjKey, NullColKey,
                   MixedNull, TRUE))
    /\ phase' = "Recording"
    /\ UNCHANGED m_short_circuit

\* The transaction manager commits: the changeset is handed off as it is.
commit_transact ==
    /\ phase = "Recording"
    /\ last.outcome = "ok"
    /\ ~prepared_in_txn
    /\ Finish(Cur, Call("commit", NullTable, NullObjKey, NullColKey, MixedNull, FALSE))
    /\ phase' = "Idle"
    /\ UNCHANGED m_short_circuit

\* The transaction manager aborts, also after a call that threw.
abort_transact ==
    /\ phase = "Recording"
    /\ last.outcome # "fatal"
    /\ Finish(Cur, Call("abort", NullTable, NullObjKey, NullColKey, MixedNull, FALSE))
    /\ phase' = "Idle"
    /\ UNCHANGED m_short_circuit

\* Replication::set_short_circuit
set_short_circuit(b) ==
    /\ phase = "Recording"
    /\ last.outcome = "ok"
    /\ m_short_circuit # b
    /\ m_short_circuit' = b
    /\ Finish(Cur, Call("set_short_circuit", NullTable, NullObjKey, NullColKey,
                        MixedNull, FALSE))
    /\ UNCHANGED phase

-----------------------------------------------------------------------------
(* Schema callbacks *)

\* get_payload_type: the payload type of a column type, "unsupported" for
\* the legacy types.
get_payload_type(type) ==
    IF type \in {"Int", "Bool", "String", "Binary", "Timestamp", "Float",
                 "Double", "Decimal", "ObjectId"} THEN type
    ELSE IF type \in {"Link", "LinkList", "TypedLink"} THEN "Link"
    ELSE IF type = "Mixed" THEN "Null"
    ELSE "unsupported"

\* Instruction::is_valid_key_type
is_valid_key_type(type) == type \in {"Int", "String", "ObjectId", "GlobalKey"}

AddTable(table, spec) == [Instr("AddTable") EXCEPT !.table = table, !.spec = spec]

\* add_class, lines 203-211: f is the interned empty field name.
add_table_global_key(f, table) ==
    emit(f.st, AddTable(table, <<"PrimaryKeySpec", f.ret, "GlobalKey", FALSE>>))

\* add_class that names the primary key field "id".
add_table_id_field(cn, embedded) ==
    IF embedded
    THEN emit(cn.st, AddTable(cn.ret, <<"EmbeddedTable">>))
    ELSE add_table_global_key(intern_string(cn.st, sId), cn.ret)

\* add_class, lines 198-211: cn is the interned class name.
add_table(cn, embedded) ==
    IF embedded
    THEN emit(cn.st, AddTable(cn.ret, <<"EmbeddedTable">>))
    ELSE add_table_global_key(intern_string(cn.st, sEmpty), cn.ret)

\* add_class that does not look at the name of the table.
add_class_body_any_name(st, name, embedded) ==
    IF ~m_short_circuit
    THEN add_table(emit_class_name(st, name), embedded)
    ELSE st

add_class_body(st, name, embedded) ==
    IF begins_with(name, ClassPrefix) /\ ~m_short_circuit
    THEN add_table(emit_class_name(st, name), embedded)
    ELSE st

add_class(name, embedded) ==
    EmitterCall(add_class_body(Cur, name, embedded),
                Call("add_class", name, NullObjKey, NullColKey, MixedNull, TRUE))

\* add_class_with_primary_key, lines 226-231: f is the interned pk_field.
add_table_spec(f, table, ptype, nullable) ==
    IF ptype = "unsupported" \/ ~is_valid_key_type(ptype)
    THEN unsupported_instruction(f.st)
    ELSE emit(f.st, AddTable(table, <<"PrimaryKeySpec", f.ret, ptype, nullable>>))

\* add_class_with_primary_key, lines 224-231: cn is the interned class name.
add_table_with_primary_key(cn, pk_type, pk_field, nullable) ==
    add_table_spec(intern_string(cn.st, pk_field), cn.ret,
                   get_payload_type(pk_type), nullable)

add_class_with_primary_key_body(st, name, pk_type, pk_field, nullable) ==
    IF begins_with(name, ClassPrefix) /\ ~m_short_circuit
    THEN add_table_with_primary_key(emit_class_name(st, name), pk_type, pk_field,
                                    nullable)
    ELSE st

add_class_with_primary_key(name, pk_type, pk_field, nullable) ==
    EmitterCall(add_class_with_primary_key_body(Cur, name, pk_type, pk_field, nullable),
                Call("add_class_with_primary_key", name, NullObjKey, NullColKey,
                     MixedOfType(pk_type), TRUE))

prepare_erase_table_body(st, table_name) ==
    IF ~begins_with(table_name, ClassPrefix) THEN terminate(st)
    ELSE IF st.m_table_being_erased # sEmpty THEN terminate(st)
    ELSE [st EXCEPT !.m_table_being_erased = table_name,
                    !.prepared_in_txn = TRUE]

prepare_erase_table(table_name) ==
    EmitterCall(prepare_erase_table_body(Cur, table_name),
                Call("prepare_erase_table", table_name, NullObjKey, NullColKey,
                     MixedNull, FALSE))

\* erase_group_level_table, lines 320-322: cn is the interned class name.
erase_table(cn) == emit(cn.st, [Instr("EraseTable") EXCEPT !.table = cn.ret])

\* erase_group_level_table, lines 317-323, the marker cleared in st.
erase_class_table(st, table_name) ==
    IF m_short_circuit THEN st
    ELSE erase_table(emit_class_name(st, table_name))

\* erase_group_level_table, line 326
forget_last_table(st) ==
    IF st.exc # "none" THEN st ELSE [st EXCEPT !.m_last_table = NullTable]

\* erase_group_level_table that leaves the marker of the table being erased.
erase_group_level_table_body_keeps_marker(st, table_name) ==
    forget_last_table(
        IF ~begins_with(table_name, ClassPrefix) THEN st
        ELSE IF table_name # st.m_table_being_erased THEN terminate(st)
        ELSE erase_class_table([st EXCEPT !.prepared_in_txn = FALSE],
                               table_name))

erase_group_level_table_body(st, table_name) ==
    forget_last_table(
        IF ~begins_with(table_name, ClassPrefix) THEN st
        ELSE IF table_name # st.m_table_being_erased THEN terminate(st)
        ELSE erase_class_table([st EXCEPT !.m_table_being_erased = sEmpty,
                                          !.prepared_in_txn = FALSE],
                               table_name))

erase_group_level_table(table_name) ==
    EmitterCall(erase_group_level_table_body(Cur, table_name),
                Call("erase_group_level_table", table_name, NullObjKey, NullColKey,
                     MixedNull, TRUE))

rename_group_level_table_body(st) ==
    unsupported_instruction(st)

rename_group_level_table(table_name) ==
    EmitterCall(rename_group_level_table_body(Cur),
                Call("rename_group_level_table", table_name, NullObjKey,
                     NullColKey, MixedNull, FALSE))

\* rename_column that ignores the rename.
rename_column_ignored(st) == st

rename_column_body(st) ==
    unsupported_instruction(st)

rename_column(table, col) ==
    EmitterCall(rename_column_body(Cur),
                Call("rename_column", table, NullObjKey, col, MixedNull, FALSE))

collection_type(c) ==
    IF c.dictionary THEN "Dictionary" ELSE IF c.list THEN "List" ELSE "Single"

value_type(c) == IF c.dictionary THEN get_payload_type(c.type) ELSE "Null"

\* insert_column, lines 361-367: lt is the interned link target table (or "").
add_column(lt, instr, c, ptype) ==
    emit(lt.st, [instr EXCEPT
                    !.spec = <<c.nullable, ptype, collection_type(c),
                               value_type(c), lt.ret>>])

\* insert_column, lines 343-367: fn is the interned column name.
add_column_typed(fn, table_handle, c, ptype) ==
    IF ptype = "unsupported" \/ value_type(c) = "unsupported"
    THEN unsupported_instruction(fn.st)
    ELSE IF ptype = "Null" /\ ~c.nullable THEN terminate(fn.st)
    ELSE add_column(IF ptype = "Link" /\ c.target # NullTable
                    THEN emit_class_name(fn.st, c.target)
                    ELSE intern_string(fn.st, sEmpty),
                    [Instr("AddColumn") EXCEPT !.table = table_handle,
                                               !.field = fn.ret],
                    c, ptype)

\* insert_column, lines 339-368: sel is the result of select_table.
insert_column_selected(sel, c, type) ==
    IF ~sel.ret THEN sel.st
    ELSE add_column_typed(intern_string(sel.st, c.name),
                          sel.st.m_last_class_name, c, get_payload_type(type))

insert_column_body(st, table, col_key, type) ==
    insert_column_selected(select_table(st, table), get_column(table, col_key), type)

insert_column(table, col_key, type) ==
    EmitterCall(insert_column_body(Cur, table, col_key, type),
                Call("insert_column", table, NullObjKey, col_key, MixedNull, TRUE))

\* erase_column, lines 383-386: fn is the interned column name.
erase_column_named(fn, table_handle) ==
    emit(fn.st, [Instr("EraseColumn") EXCEPT !.table = table_handle,
                                              !.field = fn.ret])

\* erase_column without the assertion of line 382.
erase_column_selected_any_column(sel, table, col_ndx) ==
    IF ~sel.ret THEN sel.st
    ELSE IF table = sel.st.m_table_being_erased THEN sel.st
    ELSE erase_column_named(intern_string(sel.st, get_column_name(table, col_ndx)),
                            sel.st.m_last_class_name)

\* erase_column, lines 375-387: sel is the result of select_table.
erase_column_selected(sel, table, col_ndx) ==
    IF ~sel.ret THEN sel.st
    ELSE IF table = sel.st.m_table_being_erased THEN sel.st
    ELSE IF col_ndx = get_primary_key_column(table) THEN terminate(sel.st)
    ELSE erase_column_named(intern_string(sel.st, get_column_name(table, col_ndx)),
                            sel.st.m_last_class_name)

erase_column_body(st, table, col_ndx) ==
    erase_column_selected(select_table(st, table), table, col_ndx)

erase_column(table, col_ndx) ==
    EmitterCall(erase_column_body(Cur, table, col_ndx),
                Call("erase_column", table, NullObjKey, col_ndx, MixedNull, TRUE))

-----------------------------------------------------------------------------
(* Object callbacks *)

CreateObject(table, object) ==
    [Instr("CreateObject") EXCEPT !.table = table, !.object = object]

\* create_object that emits before it looks at the primary key column.
create_object_selected_emits_first(sel, table, oid) ==
    IF ~sel.ret THEN sel.st
    ELSE IF get_primary_key_column(table) # NullColKey
    THEN unsupported_instruction(
             emit(sel.st, CreateObject(sel.st.m_last_class_name, GlobalKeyPk(oid))))
    ELSE emit(sel.st, CreateObject(sel.st.m_last_class_name, GlobalKeyPk(oid)))

\* create_object that does not look at the primary key column.
create_object_selected_any(sel, table, oid) ==
    IF ~sel.ret THEN sel.st
    ELSE emit(sel.st, CreateObject(sel.st.m_last_class_name, GlobalKeyPk(oid)))

\* create_object, lines 242-252: sel is the result of select_table.
create_object_selected(sel, table, oid) ==
    IF ~sel.ret THEN sel.st
    ELSE IF get_primary_key_column(table) # NullColKey
    THEN unsupported_instruction(sel.st)
    ELSE emit(sel.st, CreateObject(sel.st.m_last_class_name, GlobalKeyPk(oid)))

\* create_object without the test of lines 237-239.
create_object_body_any_table(st, table, oid) ==
    create_object_selected(select_table(st, table), table, oid)

create_object_body(st, table, oid) ==
    IF is_embedded(table) THEN unsupported_instruction(st)
    ELSE create_object_selected(select_table(st, table), table, oid)

\* create_object that passes the creation through before the test of lines
\* 237-239.
create_object_passes_first(table, oid) ==
    EmitterCall(create_object_body(Cur, table, oid),
                Call("create_object", table, NullObjKey, NullColKey, MixedNull,
                     TRUE))

create_object(table, oid) ==
    EmitterCall(create_object_body(Cur, table, oid),
                Call("create_object", table, NullObjKey, NullColKey, MixedNull,
                     ~is_embedded(table)))

\* as_primary_key that takes the integer of a value of any other type.
as_primary_key_any_type(st, value) ==
    IF value_is_null(value) THEN Ret(st, NullPk)
    ELSE IF value.type = "String"
    THEN interned_primary_key(intern_string(st, value.str))
    ELSE IF value.type = "ObjectId" THEN Ret(st, ObjectIdPk(value.int))
    ELSE Ret(st, Int64Pk(value.int))

as_primary_key(st, value) ==
    IF value_is_null(value) THEN Ret(st, NullPk)
    ELSE IF value.type = "Int" THEN Ret(st, Int64Pk(value.int))
    ELSE IF value.type = "String"
    THEN interned_primary_key(intern_string(st, value.str))
    ELSE IF value.type = "ObjectId" THEN Ret(st, ObjectIdPk(value.int))
    ELSE Ret(unsupported_instruction(st), NoKey)

\* create_object_with_primary_key, lines 286-289: pk is the translated key.
create_with_key(pk, table_handle) ==
    IF Failed(pk) THEN pk.st ELSE emit(pk.st, CreateObject(table_handle, pk.ret))

\* create_object_with_primary_key that does not compare the types.
create_with_primary_key_selected_any_type(sel, table, col, value) ==
    IF ~sel.ret THEN sel.st
    ELSE IF col = NullColKey THEN unsupported_instruction(sel.st)
    ELSE create_with_key(as_primary_key(sel.st, value), sel.st.m_last_class_name)

\* create_object_with_primary_key, lines 283-296: sel is the result of
\* select_table.  Mixed::get_type() asserts on a null value (the FIXME of
\* line 107), so the types are compared only for a value that is not null.
create_with_primary_key_selected(sel, table, col, value) ==
    IF ~sel.ret THEN sel.st
    ELSE IF col = NullColKey THEN unsupported_instruction(sel.st)
    ELSE IF value_is_null(value) /\ ~get_column(table, col).nullable
    THEN terminate(sel.st)
    ELSE IF value_is_null(value) \/ get_column_type(table, col) = value.type
    THEN create_with_key(as_primary_key(sel.st, value), sel.st.m_last_class_name)
    ELSE unsupported_instruction(sel.st)

create_object_with_primary_key_body(st, table, value) ==
    IF is_embedded(table) THEN unsupported_instruction(st)
    ELSE create_with_primary_key_selected(select_table(st, table), table,
                                          get_primary_key_column(table), value)

create_object_with_primary_key(table, value) ==
    EmitterCall(create_object_with_primary_key_body(Cur, table, value),
                Call("create_object_with_primary_key", table, NullObjKey,
                     NullColKey, value, ~is_embedded(table)))

\* remove_object, lines 473-476: pk is the resolved identity.
erase_object(pk, table_handle) ==
    IF Failed(pk) THEN pk.st
    ELSE emit(pk.st, [Instr("EraseObject") EXCEPT !.table = table_handle,
                                                   !.object = pk.ret])

\* remove_object, lines 472-477: sel is the result of select_table.
remove_object_selected(sel, table, row_ndx) ==
    IF ~sel.ret THEN sel.st
    ELSE erase_object(primary_key_for_object(sel.st, table, row_ndx),
                      sel.st.m_last_class_name)

\* remove_object without the test of lines 464-465.
remove_object_body_any_table(st, table, row_ndx) ==
    IF is_unresolved(row_ndx) THEN terminate(st)
    ELSE remove_object_selected(select_table(st, table), table, row_ndx)

remove_object_body(st, table, row_ndx) ==
    IF is_embedded(table) THEN st
    ELSE IF is_unresolved(row_ndx) THEN terminate(st)
    ELSE remove_object_selected(select_table(st, table), table, row_ndx)

remove_object(table, row_ndx) ==
    EmitterCall(remove_object_body(Cur, table, row_ndx),
                Call("remove_object", table, row_ndx, NullColKey, MixedNull, TRUE))

-----------------------------------------------------------------------------
(* Field callbacks *)

\* The test of set and list_set: a link to a tombstone is not communicated.
is_unresolved_link(value) ==
    /\ ~value_is_null(value)
    /\ value.type = "Link"
    /\ is_unresolved(value.key)

\* set that never marks the value as a default.
set_selected_never_default(sel, table, col, key, value, variant) ==
    IF ~sel.ret THEN sel.st
    ELSE emit_with_payload(
             populate_path_instr(sel.st, Instr("Update"), table, key, col),
             table, col, value)

\* set, lines 451-457: sel is the result of select_table.
set_selected(sel, table, col, key, value, variant) ==
    IF ~sel.ret THEN sel.st
    ELSE emit_with_payload(
             populate_path_instr(
                 sel.st,
                 [Instr("Update") EXCEPT
                     !.is_default = (variant = "instr_SetDefault")],
                 table, key, col),
             table, col, value)

set_body(st, table, col, key, value, variant) ==
    IF is_unresolved_link(value) THEN st
    ELSE set_selected(select_table(st, table), table, col, key, value, variant)

set(table, col, key, value, variant) ==
    EmitterCall(set_body(Cur, table, col, key, value, variant),
                [Call("set", table, key, col, value, TRUE) EXCEPT
                    !.variant = variant])

\* add_int, lines 432-439: sel is the result of select_table.
add_int_selected(sel, table, col, ndx, value) ==
    IF ~sel.ret THEN sel.st
    ELSE IF col = get_primary_key_column(table) THEN terminate(sel.st)
    ELSE emit_path_instr(
             populate_path_instr(
                 sel.st, [Instr("AddInteger") EXCEPT !.value = IntPayload(value)],
                 table, ndx, col))

add_int_body(st, table, col, ndx, value) ==
    add_int_selected(select_table(st, table), table, col, ndx, value)

add_int(table, col, ndx, value) ==
    EmitterCall(add_int_body(Cur, table, col, ndx, value),
                Call("add_int", table, ndx, col, MixedInt(value), TRUE))

\* nullify_link that addresses an element of the field.
nullify_link_selected_array_update(sel, table, col_ndx, ndx) ==
    IF ~sel.ret THEN sel.st
    ELSE emit_path_instr(
             push_index(
                 populate_path_instr(
                     sel.st,
                     [Instr("Update") EXCEPT !.value = NullPayload,
                                             !.is_default = FALSE],
                     table, ndx, col_ndx),
                 0))

\* nullify_link, lines 554-561: sel is the result of select_table.
nullify_link_selected(sel, table, col_ndx, ndx) ==
    IF ~sel.ret THEN sel.st
    ELSE emit_path_instr(
             assert_array_update(
                 populate_path_instr(
                     sel.st,
                     [Instr("Update") EXCEPT !.value = NullPayload,
                                             !.is_default = FALSE],
                     table, ndx, col_ndx),
                 FALSE))

nullify_link_body(st, table, col_ndx, ndx) ==
    nullify_link_selected(select_table(st, table), table, col_ndx, ndx)

nullify_link(table, col_ndx, ndx) ==
    EmitterCall(nullify_link_body(Cur, table, col_ndx, ndx),
                Call("nullify_link", table, ndx, col_ndx, MixedNull, TRUE))

-----------------------------------------------------------------------------
(* Collection callbacks: a collection is [table, key, col] *)

\* A collection and the number of elements it holds when the callback runs.
Collection(table, key, col) ==
    [table |-> table, key |-> key, col |-> col, size |-> 2]

Sized(list, n) == [list EXCEPT !.size = n]

\* CollectionBase::size at the time of the call.
collection_size(list) == list.size

\* A call about a collection, with the index it gives (0 if it gives none).
CollectionCall(op, list, ndx, value) ==
    [Call(op, list.table, list.key, list.col, value, TRUE) EXCEPT
        !.size = collection_size(list), !.ndx = ndx]

\* A call about the entry of a dictionary with the given key.
DictionaryCall(op, dict, key, value) ==
    [CollectionCall(op, dict, 0, value) EXCEPT !.entry = key]

select_collection(st, view) == select_table(st, view.table)

\* list_set, lines 404-411: sel is the result of select_collection.
list_set_selected(sel, list, ndx, value) ==
    IF ~sel.ret THEN sel.st
    ELSE emit_with_payload(
             assert_array_update(
                 populate_path_instr_ndx(
                     sel.st,
                     [Instr("Update") EXCEPT
                         !.prior_size = collection_size(list)],
                     list, ndx),
                 TRUE),
             list.table, list.col, value)

list_set_body(st, list, ndx, value) ==
    IF is_unresolved_link(value) THEN st
    ELSE list_set_selected(select_collection(st, list), list, ndx, value)

list_set(list, ndx, value) ==
    EmitterCall(list_set_body(Cur, list, ndx, value),
                CollectionCall("list_set", list, ndx, value))

\* list_insert that counts the inserted element in.
list_insert_selected_counts_new(sel, list, ndx, value) ==
    IF ~sel.ret THEN sel.st
    ELSE emit_with_payload(
             populate_path_instr_ndx(
                 sel.st,
                 [Instr("ArrayInsert") EXCEPT
                     !.prior_size = collection_size(list) + 1],
                 list, ndx),
             list.table, list.col, value)

\* list_insert, lines 418-425: sel is the result of select_collection.
list_insert_selected(sel, list, ndx, value) ==
    IF ~sel.ret THEN sel.st
    ELSE emit_with_payload(
             populate_path_instr_ndx(
                 sel.st,
                 [Instr("ArrayInsert") EXCEPT !.prior_size = collection_size(list)],
                 list, ndx),
             list.table, list.col, value)

list_insert_body(st, list, ndx, value) ==
    list_insert_selected(select_collection(st, list), list, ndx, value)

list_insert(list, ndx, value) ==
    EmitterCall(list_insert_body(Cur, list, ndx, value),
                CollectionCall("list_insert", list, ndx, value))

\* list_move, lines 484-489: sel is the result of select_collection.
list_move_selected(sel, view, from_ndx, to_ndx) ==
    IF ~sel.ret THEN sel.st
    ELSE emit_path_instr(
             populate_path_instr_ndx(
                 sel.st, [Instr("ArrayMove") EXCEPT !.ndx_2 = to_ndx], view,
                 from_ndx))

list_move_body(st, view, from_ndx, to_ndx) ==
    list_move_selected(select_collection(st, view), view, from_ndx, to_ndx)

list_move(view, from_ndx, to_ndx) ==
    EmitterCall(list_move_body(Cur, view, from_ndx, to_ndx),
                CollectionCall("list_move", view, from_ndx, MixedNull))

\* list_erase, lines 496-501: sel is the result of select_collection.
list_erase_selected(sel, view, ndx) ==
    IF ~sel.ret THEN sel.st
    ELSE emit_path_instr(
             populate_path_instr_ndx(
                 sel.st,
                 [Instr("ArrayErase") EXCEPT !.prior_size = collection_size(view)],
                 view, ndx))

list_erase_body(st, view, ndx) ==
    list_erase_selected(select_collection(st, view), view, ndx)

list_erase(view, ndx) ==
    EmitterCall(list_erase_body(Cur, view, ndx),
                CollectionCall("list_erase", view, ndx, MixedNull))

\* link_list_nullify, lines 568-573: sel is the result of select_collection.
link_list_nullify_selected(sel, view, ndx) ==
    IF ~sel.ret THEN sel.st
    ELSE emit_path_instr(
             populate_path_instr_ndx(
                 sel.st,
                 [Instr("ArrayErase") EXCEPT !.prior_size = collection_size(view)],
                 view, ndx))

link_list_nullify_body(st, view, ndx) ==
    link_list_nullify_selected(select_collection(st, view), view, ndx)

link_list_nullify(view, ndx) ==
    EmitterCall(link_list_nullify_body(Cur, view, ndx),
                CollectionCall("link_list_nullify", view, ndx, MixedNull))

\* list_clear that emits one instruction for each element of the list.
list_clear_selected_per_element(sel, view) ==
    IF ~sel.ret THEN sel.st
    ELSE emit_path_instr(
             populate_path_instr(
                 emit_path_instr(
                     populate_path_instr(
                         sel.st,
                         [Instr("ArrayClear") EXCEPT
                             !.prior_size = collection_size(view)],
                         view.table, view.key, view.col)),
                 [Instr("ArrayClear") EXCEPT !.prior_size = collection_size(view)],
                 view.table, view.key, view.col))

\* list_clear, lines 508-513: sel is the result of select_collection.
list_clear_selected(sel, view) ==
    IF ~sel.ret THEN sel.st
    ELSE emit_path_instr(
             populate_path_instr(
                 sel.st,
                 [Instr("ArrayClear") EXCEPT !.prior_size = collection_size(view)],
                 view.table, view.key, view.col))

list_clear_body(st, view) == list_clear_selected(select_collection(st, view), view)

list_clear(view) ==
    EmitterCall(list_clear_body(Cur, view),
                CollectionCall("list_clear", view, 0, MixedNull))

\* The key pushed as an index: the handle of the interned key as a number.
push_key_as_index(k, instr) ==
    Path(k.st, [instr EXCEPT !.path = Append(@, IndexComponent(k.ret))])

\* dictionary_insert, lines 525-527: k is the interned key.
push_key(k, instr) ==
    Path(k.st, [instr EXCEPT !.path = Append(@, FieldComponent(k.ret))])

intern_key(p, key) ==
    IF Failed(p) THEN p ELSE push_key(intern_string(p.st, key.str), p.instr)

\* The path of a dictionary entry: the interned key ends it.
populate_path_instr_key(st, instr, dict, key) ==
    intern_key(populate_path_instr(st, instr, dict.table, dict.key, dict.col), key)

\* dictionary_insert, lines 521-530: sel is the result of select_collection.
dictionary_insert_selected(sel, dict, key, val) ==
    IF ~sel.ret THEN sel.st
    ELSE IF key.type # "String" THEN terminate(sel.st)
    ELSE emit_with_payload(
             populate_path_instr_key(sel.st, Instr("DictionaryInsert"), dict, key),
             dict.table, dict.col, val)

dictionary_insert_body(st, dict, key, val) ==
    dictionary_insert_selected(select_collection(st, dict), dict, key, val)

dictionary_insert(dict, key, val) ==
    EmitterCall(dictionary_insert_body(Cur, dict, key, val),
                DictionaryCall("dictionary_insert", dict, key, val))

\* dictionary_erase, lines 538-546: sel is the result of select_collection.
dictionary_erase_selected(sel, dict, key) ==
    IF ~sel.ret THEN sel.st
    ELSE IF key.type # "String" THEN terminate(sel.st)
    ELSE emit_path_instr(
             populate_path_instr_key(sel.st, Instr("DictionaryErase"), dict, key))

dictionary_erase_body(st, dict, key) ==
    dictionary_erase_selected(select_collection(st, dict), dict, key)

dictionary_erase(dict, key) ==
    EmitterCall(dictionary_erase_body(Cur, dict, key),
                DictionaryCall("dictionary_erase", dict, key, MixedNull))

-----------------------------------------------------------------------------
(* The calls the storage engine makes, and the specification *)

\* add_class_with_primary_key: <<table, pk_type, pk_field, nullable>>
AddClassPkArgs ==
    {<<tPerson, "Int", sId, FALSE>>, <<tPerson, "Bool", sId, FALSE>>,
     <<tMeta, "Int", sId, FALSE>>}

\* insert_column: <<table, col_key, type>>
InsertColumnArgs ==
    {<<tPerson, 2, "String">>, <<tDog, 2, "Link">>,
     <<tPerson, 2, "OldDateTime">>, <<tMeta, 1, "Int">>}

\* erase_column: <<table, col_key>>
EraseColumnArgs == {<<tPerson, 2>>, <<tPerson, 1>>, <<tDog, 1>>, <<tMeta, 1>>}

\* create_object_with_primary_key: <<table, value>>
CreateWithPkArgs ==
    {<<tPerson, MixedInt(7)>>, <<tPerson, MixedString(sAnn)>>,
     <<tPerson, MixedObjectId(3)>>, <<tPerson, MixedBool>>,
     <<tPerson, MixedNull>>,
     <<tCat, MixedString(sAnn)>>, <<tCat, MixedInt(7)>>, <<tCat, MixedNull>>,
     <<tBird, MixedObjectId(3)>>, <<tBird, MixedString(sAnn)>>,
     <<tDog, MixedInt(7)>>, <<tAddr, MixedInt(7)>>, <<tMeta, MixedInt(7)>>}

\* remove_object: <<table, key>>
RemoveObjectArgs ==
    {<<tPerson, 1>>, <<tDog, 1>>, <<tAddr, 1>>, <<tMeta, 1>>,
     <<tCat, 1>>, <<tCat, 2>>, <<tBird, 1>>, <<tMeta, UnresolvedKey>>}

\* set: <<table, col, key, value, variant>>
SetArgs ==
    {<<tPerson, 2, 1, MixedString(sAnn), "instr_Set">>,
     <<tPerson, 2, 2, MixedString(sAnn), "instr_SetDefault">>,
     <<tPerson, 3, 1, MixedLink(1), "instr_Set">>,
     <<tDog, 2, 1, MixedLink(1), "instr_Set">>,
     <<tDog, 2, 1, MixedLink(UnresolvedKey), "instr_Set">>,
     <<tAddr, 1, 1, MixedInt(5), "instr_Set">>,
     <<tAddr, 1, 2, MixedInt(5), "instr_Set">>,
     <<tAddr, 2, 1, MixedLink(2), "instr_Set">>,
     <<tMeta, 1, 1, MixedInt(5), "instr_Set">>}

\* add_int and nullify_link: <<table, col, key>>
AddIntArgs == {<<tDog, 1, 1>>, <<tMeta, 1, 1>>}
NullifyLinkArgs == {<<tPerson, 3, 1>>, <<tAddr, 2, 1>>, <<tMeta, 1, 1>>}

\* The collections: a list of links, a list of embedded objects, a
\* dictionary, and a list of a table that is not replicated.
lPals == Collection(tDog, 1, 3)
lItems == Collection(tPerson, 1, 4)
dTags == Collection(tDog, 1, 4)
dNotes == Collection(tAddr, 2, 3)   \* a dictionary of an embedded object
dKin == Collection(tDog, 1, 5)      \* a dictionary of links
lMeta == Collection(tMeta, 1, 1)

\* list_set: <<list, ndx, value>>
ListSetArgs ==
    {<<lPals, 1, MixedLink(1)>>, <<lPals, 0, MixedLink(UnresolvedKey)>>,
     <<Sized(lItems, 3), 2, MixedLink(1)>>, <<lMeta, 0, MixedInt(5)>>}

\* list_insert: <<list, ndx, value>>
ListInsertArgs ==
    {<<lPals, 0, MixedLink(1)>>, <<lPals, 0, MixedLink(UnresolvedKey)>>,
     <<Sized(lPals, 1), 0, MixedLink(1)>>,
     <<Sized(lItems, 3), 1, MixedLink(1)>>, <<lMeta, 0, MixedInt(5)>>}

Lists == {lPals, lMeta}

\* list_erase and link_list_nullify: lists of one and of two elements.
ErasedLists == {lPals, Sized(lPals, 1), lMeta}

\* dictionary_insert: <<dict, key, value>>
DictInsertArgs ==
    {<<dTags, MixedString(sK), MixedInt(5)>>, <<dTags, MixedInt(5), MixedInt(5)>>,
     <<lMeta, MixedString(sK), MixedInt(5)>>}
DictEraseArgs == {<<dTags, MixedString(sK)>>, <<lMeta, MixedString(sK)>>}

NoCall ==
    [op |-> "init", table |-> NullTable, key |-> NullObjKey, col |-> NullColKey,
     value |-> MixedNull, passthrough |-> FALSE, size |-> 0,
     entry |-> MixedNull, ndx |-> 0, variant |-> "", outcome |-> "ok",
     resolved |-> 0, emitted |-> 0]

\* The state after construction: an empty encoder and an empty cache.
Constructed ==
    /\ strings = <<>>
    /\ buffer = <<>>
    /\ instrs = <<>>
    /\ m_last_table = NullTable
    /\ m_last_object = NullObjKey
    /\ m_last_field = NullColKey
    /\ m_last_class_name = npos
    /\ m_last_primary_key = NoKey
    /\ m_last_field_name = npos
    /\ m_table_being_erased = sEmpty
    /\ m_short_circuit = FALSE
    /\ phase = "Idle"
    /\ prepared_in_txn = FALSE
    /\ last = NoCall

Init == Constructed /\ capacity = MaxInstrs

\* Group::remove_table runs to its end once sync::erase_table has called
\* prepare_erase_table: until erase_group_level_table, the engine reports
\* only column erasures, or fails (and the transaction is aborted).
Erasing == prepared_in_txn

TableErasure ==
    \/ \E t \in {tPerson, tMeta} : prepare_erase_table(t)
    \/ \E t \in {tPerson, tMeta} : erase_group_level_table(t)
    \/ \E a \in EraseColumnArgs : erase_column(a[1], a[2])

Mutation ==
    \/ \E t \in Tables : add_class(t, is_embedded(t))
    \/ \E a \in AddClassPkArgs : add_class_with_primary_key(a[1], a[2], a[3], a[4])
    \/ \E t \in {tPerson, tMeta} : rename_group_level_table(t)
    \/ \E t \in {tPerson, tMeta} : rename_column(t, 1)
    \/ \E a \in InsertColumnArgs : insert_column(a[1], a[2], a[3])
    \/ \E t \in Tables : create_object(t, get_object_id(t, 1))
    \/ \E a \in CreateWithPkArgs : create_object_with_primary_key(a[1], a[2])
    \/ \E a \in RemoveObjectArgs : remove_object(a[1], a[2])
    \/ \E a \in SetArgs : set(a[1], a[2], a[3], a[4], a[5])
    \/ \E a \in AddIntArgs : add_int(a[1], a[2], a[3], 3)
    \/ \E a \in NullifyLinkArgs : nullify_link(a[1], a[2], a[3])
    \/ \E a \in ListSetArgs : list_set(a[1], a[2], a[3])
    \/ \E a \in ListInsertArgs : list_insert(a[1], a[2], a[3])
    \/ \E l \in Lists : list_move(l, 0, 1)
    \/ \E l \in ErasedLists : list_erase(l, 0)
    \/ \E l \in ErasedLists : link_list_nullify(l, l.size - 1)
    \/ \E l \in Lists : list_clear(l)
    \/ \E a \in DictInsertArgs : dictionary_insert(a[1], a[2], a[3])
    \/ \E a \in DictEraseArgs : dictionary_erase(a[1], a[2])

Next ==
    \/ do_initiate_transact
    \/ commit_transact
    \/ abort_transact
    \/ \E b \in BOOLEAN : set_short_circuit(b)
    \/ TableErasure
    \/ ~Erasing /\ Mutation

Spec == Init /\ [][Next]_vars

\* The callbacks that translate keys and values, in changesets of up to
\* MaxChain instructions: objects are created with a primary key, and fields,
\* lists and dictionaries of these and of other objects are changed
\* afterwards, also with values of the kinds that have no payload.
InitIdentity == Constructed /\ capacity = MaxChain

\* create_object_with_primary_key: <<table, value>>
IdentityCreateArgs ==
    {<<tPerson, MixedInt(7)>>, <<tPerson, MixedInt(42)>>,
     <<tCat, MixedString(sAnn)>>, <<tCat, MixedNull>>,
     <<tBird, MixedObjectId(3)>>, <<tFlag, MixedBool>>}

\* set: <<table, col, key, value, variant>>
IdentitySetArgs ==
    {<<tPerson, 2, 1, MixedString(sAnn), "instr_Set">>,
     <<tPerson, 2, 2, MixedString(sAnn), "instr_Set">>,
     <<tPerson, 3, 1, MixedLink(1), "instr_Set">>,
     <<tDog, 2, 1, MixedLink(2), "instr_Set">>,
     <<tAddr, 1, 1, MixedInt(5), "instr_Set">>,
     <<tCat, 1, 1, MixedString(sK), "instr_Set">>}
    \cup {<<tDog, 1, 1, MixedOfType(t), "instr_Set">> : t \in LegacyTypes}

\* list_insert and dictionary_insert: <<collection, index or key, value>>
IdentityListInsertArgs ==
    {<<Sized(lItems, 3), 1, MixedLink(1)>>,
     <<lPals, 0, MixedLink(2)>>,
     <<lPals, 0, MixedOfType("LinkList")>>}
IdentityDictInsertArgs ==
    {<<dTags, MixedString(sK), MixedInt(5)>>,
     <<dTags, MixedString(sK), MixedOfType("Mixed")>>,
     <<dTags, MixedInt(5), MixedInt(5)>>,
     <<dNotes, MixedString(sK), MixedInt(5)>>,
     <<dKin, MixedString(sAnn), MixedLink(1)>>}

\* dictionary_erase: <<dictionary, key>>
IdentityDictEraseArgs ==
    {<<dTags, MixedString(sK)>>, <<dTags, MixedInt(5)>>, <<dTags, MixedBool>>,
     <<dNotes, MixedString(sAnn)>>}

\* add_class_with_primary_key: <<table, pk_type, pk_field, nullable>>
IdentityAddClassArgs ==
    {<<tPerson, "Int", sId, FALSE>>, <<tCat, "String", sId, TRUE>>,
     <<tBird, "ObjectId", sId, FALSE>>, <<tFlag, "Bool", sId, FALSE>>,
     <<tPerson, "OldDateTime", sId, FALSE>>, <<tPerson, "Link", sId, FALSE>>,
     <<tMeta, "Int", sId, FALSE>>}

NextIdentity ==
    \/ do_initiate_transact
    \/ abort_transact
    \/ \E a \in IdentityCreateArgs : create_object_with_primary_key(a[1], a[2])
    \/ \E a \in IdentityAddClassArgs :
           add_class_with_primary_key(a[1], a[2], a[3], a[4])
    \/ \E a \in IdentitySetArgs : set(a[1], a[2], a[3], a[4], a[5])
    \/ \E t \in {tDog, tAddr} : add_int(t, 1, 1, 3)
    \/ list_set(lPals, 1, MixedLink(1))
    \/ \E a \in IdentityListInsertArgs : list_insert(a[1], a[2], a[3])
    \/ \E a \in IdentityDictInsertArgs : dictionary_insert(a[1], a[2], a[3])
    \/ \E a \in IdentityDictEraseArgs : dictionary_erase(a[1], a[2])

SpecIdentity == InitIdentity /\ [][NextIdentity]_vars

\* The callbacks that resolve the identity of a row, with a storage engine
\* in which row 4 of class_P holds null in its key column.
BrokenRowKeys == {<<tPerson, 1>>, <<tPerson, 4>>, <<tCat, 2>>, <<tDog, 1>>}

NextBrokenRow ==
    \/ do_initiate_transact
    \/ commit_transact
    \/ abort_transact
    \/ \E a \in BrokenRowKeys : remove_object(a[1], a[2])
    \/ \E a \in BrokenRowKeys \ {<<tCat, 2>>} :
           set(a[1], 2, a[2], MixedNull, "instr_Set")
    \/ \E k \in {1, 4} : set(tDog, 2, 1, MixedLink(k), "instr_Set")
    \/ \E k \in {1, 4} : list_insert(lPals, 0, MixedLink(k))
    \/ \E k \in {1, 4} : list_clear(Collection(tPerson, k, 4))

SpecBrokenRow == Init /\ [][NextBrokenRow]_vars

-----------------------------------------------------------------------------
(* Properties of the emitter *)

\* The entry points through which the storage engine reports a mutation.
MutationOps ==
    {"add_class", "add_class_with_primary_key", "erase_group_level_table",
     "insert_column", "erase_column", "create_object",
     "create_object_with_primary_key", "remove_object", "set", "add_int",
     "nullify_link", "list_set", "list_insert", "list_move", "list_erase",
     "link_list_nullify", "list_clear", "dictionary_insert", "dictionary_erase"}
RenameOps == {"rename_group_level_table", "rename_column"}
EmitterOps == MutationOps \cup RenameOps

Replicated(table) == begins_with(table, ClassPrefix)
LastInstr == instrs[Len(instrs)]
Named(handle, str) == handle \in 1..Len(strings) /\ strings[handle] = str

\* C1: within one transaction the instruction sequence only grows at its
\* end: every step other than the start of a transaction leaves the
\* instructions already emitted in place, in their order, and puts what it
\* emits after them.
C1_AppendOnly ==
    [][(last').op # "do_initiate_transact" =>
           /\ Len(instrs') >= Len(instrs)
           /\ SubSeq(instrs', 1, Len(instrs)) = instrs]_vars

\* A second instruction has been emitted after a first one.
C1_Witness ==
    /\ phase = "Recording" /\ Len(instrs) = 2 /\ last.emitted = 1
    /\ instrs[1] # instrs[2]

\* C2 as stated: every mutation call on a replicated table that returns
\* normally emits exactly one instruction (replication being in effect).
C2_ExactlyOneAlways ==
    (last.op \in MutationOps /\ Replicated(last.table) /\ last.outcome = "ok"
         /\ ~m_short_circuit)
        => last.emitted = 1

\* The calls on a replicated table that return normally and emit nothing.
Suppressed ==
    \/ m_short_circuit
    \/ last.op = "remove_object" /\ is_embedded(last.table)
    \/ last.op = "erase_column" /\ last.table = m_table_being_erased
    \/ last.op \in {"set", "list_set"} /\ is_unresolved_link(last.value)

\* C2: a mutation call on a replicated table that returns normally emits
\* exactly one instruction, except that it emits none when replication is
\* short-circuited, when it removes an embedded object, when it erases a
\* column of the table being erased, and when set or list_set stores a link
\* to an unresolved object.
C2_ExactlyOne ==
    (last.op \in MutationOps /\ Replicated(last.table) /\ last.outcome = "ok")
        => last.emitted = (IF Suppressed THEN 0 ELSE 1)

\* A collection call on a table selected before has emitted one instruction.
C2_Witness ==
    /\ last.op = "list_clear" /\ Replicated(last.table) /\ last.outcome = "ok"
    /\ last.emitted = 1 /\ Len(instrs) = 2 /\ instrs[1].table = instrs[2].table

\* C3 as stated: every entry point called on a table that is not replicated
\* returns normally and emits nothing.
C3_SilentAlways ==
    (last.op \in EmitterOps /\ ~Replicated(last.table))
        => (last.outcome = "ok" /\ last.emitted = 0)

\* The calls that raise UnsupportedInstruction whatever the table is.
RaisesOnAnyTable ==
    \/ last.op \in RenameOps
    \/ last.op \in {"create_object", "create_object_with_primary_key"}
           /\ is_embedded(last.table)

\* The calls whose arguments break an assertion made before the table is
\* looked at.
BreaksAssertion == last.op = "remove_object" /\ is_unresolved(last.key)

\* C3: a call on a table that is not replicated, with arguments that meet
\* the assertions of the callback, emits nothing; it returns normally unless
\* it is a rename or the creation of an object in an embedded table, which
\* raise UnsupportedInstruction for every table.
C3_Silent ==
    (last.op \in EmitterOps /\ ~Replicated(last.table) /\ ~BreaksAssertion)
        => /\ last.emitted = 0
           /\ last.outcome = (IF RaisesOnAnyTable THEN "unsupported" ELSE "ok")

\* A field was set in a table that is not replicated, after an instruction
\* of a replicated table.
C3_Witness ==
    /\ last.op = "set" /\ last.table = tMeta /\ last.outcome = "ok"
    /\ Len(instrs) = 1 /\ ~m_short_circuit

\* C4: a call appends no instruction or one instruction, never more.
C4_AtMostOne == last.op \in EmitterOps => last.emitted \in {0, 1}

\* One instruction for a field of an embedded object two levels down.
C4_Witness ==
    /\ last.op = "set" /\ last.table = tAddr /\ last.key = 2
    /\ last.emitted = 1 /\ Len(LastInstr.path) = 3

\* The top-level object and field an instruction of the last call addresses,
\* from the storage engine.
Addressed ==
    IF is_embedded(last.table) /\ last.key # NullObjKey
    THEN [table |-> traverse_path(last.table, last.key)[1].table,
          key |-> traverse_path(last.table, last.key)[1].key,
          col |-> traverse_path(last.table, last.key)[1].field]
    ELSE [table |-> last.table, key |-> last.key, col |-> last.col]

\* pk is the identity of a row, as the storage engine holds it.
IdentityIs(pk, table, key) ==
    IF get_primary_key_column(table) = NullColKey
    THEN pk = GlobalKeyPk(get_object_id(table, key))
    ELSE IF value_is_null(PkValue(table, key)) THEN pk = NullPk
    ELSE IF PkValue(table, key).type = "Int"
    THEN pk = Int64Pk(PkValue(table, key).int)
    ELSE IF PkValue(table, key).type = "String"
    THEN pk.kind = "InternString" /\ Named(pk.int, PkValue(table, key).str)
    ELSE pk = ObjectIdPk(PkValue(table, key).int)

\* C5: the table name, the object identity and the field name of an emitted
\* instruction are the ones of the table, row and column of the call,
\* whatever the cache held before the call.
C5_CacheTransparent ==
    (last.op \in EmitterOps /\ last.emitted = 1) =>
        /\ Named(LastInstr.table, table_name_to_class_name(Addressed.table))
        /\ last.key # NullObjKey =>
               IdentityIs(LastInstr.object, Addressed.table, Addressed.key)
        /\ last.col # NullColKey =>
               Named(LastInstr.field,
                     get_column_name(Addressed.table, Addressed.col))

\* The same field of the same object was set twice in a row: the second
\* call found the table, the object and the field in the cache.
C5_Witness ==
    /\ last.op = "set" /\ last.emitted = 1 /\ Len(instrs) = 2
    /\ instrs[1].type = "Update" /\ instrs[2].type = "Update"
    /\ instrs[1].table = instrs[2].table
    /\ instrs[1].object = instrs[2].object
    /\ instrs[1].field = instrs[2].field
    /\ instrs[1].path = <<>> /\ instrs[2].path = <<>>

\* C6: right after do_initiate_transact there are no instructions, the
\* interning table is empty, and the cache holds no table, no object, no
\* identity and no field (the identity is the valueless PrimaryKey()).
C6_SessionReset ==
    last.op = "do_initiate_transact" =>
        /\ instrs = <<>> /\ strings = <<>> /\ buffer = <<>>
        /\ m_last_table = NullTable /\ m_last_class_name = npos
        /\ m_last_object = NullObjKey
        /\ m_last_primary_key \in {NoKey, NullPk}
        /\ m_last_field = NullColKey /\ m_last_field_name = npos

\* A transaction has started after one in which the engine made calls.
C6_Witness ==
    /\ last.op = "do_initiate_transact" /\ phase = "Recording"
    /\ m_table_being_erased = tPerson

\* C7 as stated: the transaction that starts after an abort starts from the
\* emitter state of a fresh session, so that nothing of the aborted
\* transaction can influence what it emits.
C7_AbortDiscards ==
    [][(last.op = "abort" /\ (last').op = "do_initiate_transact") =>
           /\ instrs' = <<>> /\ strings' = <<>> /\ buffer' = <<>>
           /\ m_last_table' = NullTable /\ m_last_object' = NullObjKey
           /\ m_last_field' = NullColKey
           /\ m_table_being_erased' = sEmpty]_vars

\* C8: a call that raises UnsupportedInstruction leaves the instruction
\* sequence as it was before the call.
C8_UnsupportedEmitsNothing ==
    [][(last').outcome = "unsupported" => instrs' = instrs]_vars

\* An object creation was refused after an instruction had been emitted.
C8_Witness ==
    /\ last.outcome = "unsupported" /\ Len(instrs) = 1
    /\ last.op \in {"create_object", "create_object_with_primary_key"}

\* C9: rename_group_level_table and rename_column raise
\* UnsupportedInstruction for every table and emit nothing.
C9_RenamesRaise ==
    last.op \in RenameOps => (last.outcome = "unsupported" /\ last.emitted = 0)

\* A column of a table that is not replicated was renamed.
C9_Witness ==
    /\ last.op = "rename_column" /\ last.table = tMeta
    /\ last.outcome = "unsupported"

\* C10 as stated: set, list_set and list_insert of a link to an unresolved
\* object emit nothing.
C10_UnresolvedEmitsNothing ==
    (last.op \in {"set", "list_set", "list_insert"}
         /\ is_unresolved_link(last.value))
        => last.emitted = 0

\* The components that lead from the top object to an embedded row: for each
\* nesting level the name of the owning field, and the index when the field
\* is a list.
RECURSIVE OwnerComponents(_, _)
OwnerComponents(table, key) ==
    (IF is_embedded(Owner(table, key).table)
     THEN OwnerComponents(Owner(table, key).table, Owner(table, key).key)
     ELSE <<>>)
    \o <<[kind |-> "field",
          name |-> get_column_name(Owner(table, key).table,
                                   Owner(table, key).field)]>>
    \o (IF get_column(Owner(table, key).table, Owner(table, key).field).list
        THEN <<[kind |-> "index", int |-> Owner(table, key).index]>>
        ELSE <<>>)

\* A component of an emitted path with its handle looked up.
Decoded(c) ==
    IF c.kind = "field"
    THEN [kind |-> "field",
          name |-> IF c.int \in 1..Len(strings) THEN strings[c.int] ELSE sEmpty]
    ELSE [kind |-> "index", int |-> c.int]

\* The field of an instruction followed by its path, handles looked up.
DecodedPath(instr) ==
    <<Decoded(FieldComponent(instr.field))>>
    \o [i \in 1..Len(instr.path) |-> Decoded(instr.path[i])]

FieldOps == {"set", "add_int", "nullify_link"}

\* C11: the instruction for a field of an embedded object carries the class
\* name and the identity of the nearest ancestor that is not embedded, and
\* its field followed by its path is, from that ancestor down, one field name
\* per nesting level, an index right after each level that is a list, and
\* the name of the field itself at the end.
C11_EmbeddedPath ==
    (last.op \in FieldOps /\ is_embedded(last.table) /\ last.emitted = 1) =>
        /\ ~is_embedded(Addressed.table)
        /\ Named(LastInstr.table, table_name_to_class_name(Addressed.table))
        /\ IdentityIs(LastInstr.object, Addressed.table, Addressed.key)
        /\ DecodedPath(LastInstr) =
               OwnerComponents(last.table, last.key)
               \o <<[kind |-> "field",
                     name |-> get_column_name(last.table, last.col)]>>

\* Field x of the embedded object that is the sub of element 3 of the list
\* items of a top object: path items, 3, sub, x.
C11_Witness ==
    /\ last.op = "set" /\ last.table = tAddr /\ last.key = 2
    /\ last.emitted = 1
    /\ DecodedPath(LastInstr) =
           <<[kind |-> "field", name |-> sItems], [kind |-> "index", int |-> 3],
             [kind |-> "field", name |-> sSub], [kind |-> "field", name |-> sX]>>

\* The replicated table a class name handle of the changeset stands for.
TableOfHandle(handle) ==
    CHOOSE t \in Tables \cup {NullTable} :
        \/ /\ t \in Tables /\ Replicated(t)
           /\ Named(handle, table_name_to_class_name(t))
        \/ /\ t = NullTable
           /\ ~\E u \in Tables :
                  Replicated(u) /\ Named(handle, table_name_to_class_name(u))

\* The identity variant that the declared primary key type of a column
\* calls for.
KindOfType(type) ==
    IF type = "Int" THEN "Int64"
    ELSE IF type = "String" THEN "InternString"
    ELSE IF type = "ObjectId" THEN "ObjectId"
    ELSE "None"

\* The identity pk has the variant that the table declares.
KindMatches(pk, table) ==
    IF get_primary_key_column(table) = NullColKey
    THEN pk.kind = "GlobalKey"
    ELSE \/ pk.kind = KindOfType(
                get_column_type(table, get_primary_key_column(table)))
         \/ /\ pk.kind = "Null"
            /\ get_column(table, get_primary_key_column(table)).nullable

\* C12: every identity in the changeset (the object of CreateObject, of
\* EraseObject and of a path instruction, and the target of a Link payload)
\* has the variant of the declared primary key type of its table (Null on a
\* nullable one), and is a GlobalKey exactly when the table declares no
\* primary key column.
C12_IdentityMatchesSchema ==
    \A i \in 1..Len(instrs) :
        /\ instrs[i].object # NoKey =>
               /\ TableOfHandle(instrs[i].table) # NullTable
               /\ KindMatches(instrs[i].object, TableOfHandle(instrs[i].table))
        /\ instrs[i].value.type = "Link" =>
               /\ TableOfHandle(instrs[i].value.target_table) # NullTable
               /\ KindMatches(instrs[i].value.target,
                              TableOfHandle(instrs[i].value.target_table))

\* A link from an object without primary key to one with an Int key, then
\* the erasure of an object with a String key.
C12_Witness ==
    /\ Len(instrs) = 2
    /\ instrs[1].value.type = "Link" /\ instrs[1].value.target.kind = "Int64"
    /\ instrs[1].object.kind = "GlobalKey"
    /\ instrs[2].type = "EraseObject" /\ instrs[2].object.kind = "InternString"

\* The last call created an object with a primary key in a table that is
\* replicated, not embedded and declares a primary key column, with
\* replication in effect.
CreatedWithKey ==
    /\ last.op = "create_object_with_primary_key"
    /\ Replicated(last.table) /\ ~is_embedded(last.table) /\ ~m_short_circuit
    /\ get_primary_key_column(last.table) # NullColKey

PkColumn(table) == get_column(table, get_primary_key_column(table))

\* C13: creating an object with a primary key value whose type is not the
\* declared type of the primary key column raises UnsupportedInstruction and
\* emits nothing.
C13_TypeMismatch ==
    (CreatedWithKey /\ ~value_is_null(last.value)
         /\ last.value.type # PkColumn(last.table).type)
        => (last.outcome = "unsupported" /\ last.emitted = 0)

\* An Int value on a String key, after an instruction.
C13_Witness ==
    /\ CreatedWithKey /\ last.table = tCat /\ last.value.type = "Int"
    /\ last.outcome = "unsupported" /\ Len(instrs) = 1

\* C14 as stated: a null primary key value emits CreateObject with the
\* identity Null when the column is nullable, and raises
\* UnsupportedInstruction, no other failure, when it is not.
C14_NullKey ==
    (CreatedWithKey /\ value_is_null(last.value)) =>
        IF PkColumn(last.table).nullable
        THEN /\ last.outcome = "ok" /\ last.emitted = 1
             /\ LastInstr.type = "CreateObject" /\ LastInstr.object = NullPk
        ELSE last.outcome = "unsupported" /\ last.emitted = 0

\* C15: with replication in effect on a replicated table, create_object
\* emits CreateObject with the given GlobalKey when the table declares no
\* primary key column and raises UnsupportedInstruction when it declares
\* one; create_object_with_primary_key raises UnsupportedInstruction when
\* the table declares none.
C15_KeyRequirement ==
    (Replicated(last.table) /\ ~is_embedded(last.table) /\ ~m_short_circuit) =>
        /\ last.op = "create_object" =>
               IF get_primary_key_column(last.table) = NullColKey
               THEN /\ last.outcome = "ok" /\ last.emitted = 1
                    /\ LastInstr.type = "CreateObject"
                    /\ Named(LastInstr.table,
                             table_name_to_class_name(last.table))
                    /\ LastInstr.object =
                           GlobalKeyPk(get_object_id(last.table, 1))
               ELSE last.outcome = "unsupported" /\ last.emitted = 0
        /\ (last.op = "create_object_with_primary_key"
                /\ get_primary_key_column(last.table) = NullColKey)
               => (last.outcome = "unsupported" /\ last.emitted = 0)

\* An object without key was created, then one was refused in a table that
\* declares a key.
C15_Witness ==
    /\ last.op = "create_object" /\ last.table = tPerson
    /\ last.outcome = "unsupported" /\ Len(instrs) = 1
    /\ instrs[1].type = "CreateObject" /\ instrs[1].object.kind = "GlobalKey"

\* C16: creating an object in an embedded table, with or without a primary
\* key, raises UnsupportedInstruction and emits nothing, and no CreateObject
\* of the changeset names an embedded table.
C16_NoEmbeddedCreation ==
    /\ (last.op \in {"create_object", "create_object_with_primary_key"}
            /\ is_embedded(last.table))
           => (last.outcome = "unsupported" /\ last.emitted = 0)
    /\ \A i \in 1..Len(instrs) :
           instrs[i].type = "CreateObject" =>
               /\ TableOfHandle(instrs[i].table) # NullTable
               /\ ~is_embedded(TableOfHandle(instrs[i].table))

\* An object creation in a replicated embedded table was refused after an
\* embedded object was put into a list of its owner.
C16_Witness ==
    /\ last.op = "create_object" /\ last.table = tAddr
    /\ last.outcome = "unsupported" /\ Len(instrs) = 1
    /\ instrs[1].value = ObjectValuePayload

\* C17: no Link payload of the changeset names an embedded target table, and
\* a link value whose target table is embedded is translated to ObjectValue.
C17_NoLinkToEmbedded ==
    /\ \A i \in 1..Len(instrs) :
           instrs[i].value.type = "Link" =>
               /\ TableOfHandle(instrs[i].value.target_table) # NullTable
               /\ ~is_embedded(TableOfHandle(instrs[i].value.target_table))
    /\ (last.op \in {"set", "list_set", "list_insert"} /\ last.emitted = 1
            /\ last.value.type = "Link"
            /\ is_embedded(get_link_target(last.table, last.col)))
           => LastInstr.value = ObjectValuePayload

\* A link to an embedded object was set in a field of an embedded object,
\* after a link to an object that is not embedded.
C17_Witness ==
    /\ last.op = "set" /\ last.table = tAddr /\ last.value.type = "Link"
    /\ last.emitted = 1 /\ Len(instrs) = 2
    /\ instrs[1].value.type = "Link" /\ instrs[2].value.type = "ObjectValue"

\* C18: remove_object on an embedded table emits nothing; with replication
\* in effect, remove_object on a replicated table that is not embedded
\* emits one EraseObject with the class name of the table and the identity
\* of the removed row.
C18_RemoveObject ==
    (last.op = "remove_object" /\ last.outcome = "ok") =>
        IF is_embedded(last.table) THEN last.emitted = 0
        ELSE (Replicated(last.table) /\ ~m_short_circuit) =>
                 /\ last.emitted = 1
                 /\ LastInstr.type = "EraseObject"
                 /\ Named(LastInstr.table, table_name_to_class_name(last.table))
                 /\ IdentityIs(LastInstr.object, last.table, last.key)

\* An embedded object was removed after an object with a String key.
C18_Witness ==
    /\ last.op = "remove_object" /\ last.table = tAddr /\ last.emitted = 0
    /\ ~m_short_circuit /\ Len(instrs) = 1
    /\ instrs[1].type = "EraseObject" /\ instrs[1].object.kind = "InternString"

RejectedBeforePassThrough ==
    \/ last.op \in RenameOps
    \/ last.op \in {"create_object", "create_object_with_primary_key"}
           /\ is_embedded(last.table)

SameFieldSetTwice ==
    /\ last.op = "set" /\ last.emitted = 1
    /\ (last').op = "set" /\ (last').emitted = 1
    /\ (last').table = last.table /\ (last').key = last.key
    /\ (last').col = last.col

\* C20 as stated: the second of two consecutive field-set calls on the same
\* table, object and field does not call the identity resolver, whatever
\* value is set.
C20_ResolvedOnceAlways ==
    [][SameFieldSetTwice => (last').resolved = 0]_vars

\* C20: the second of two consecutive field-set calls on the same object and
\* field of a table that is not embedded, neither setting a link, takes the
\* identity from the cache and does not call the identity resolver.
C20_ResolvedOnce ==
    [][(SameFieldSetTwice /\ ~is_embedded(last.table)
            /\ last.value.type # "Link" /\ (last').value.type # "Link")
           => (last').resolved = 0]_vars

\* The second of two such calls has emitted.
C20_Witness ==
    /\ last.op = "set" /\ last.emitted = 1 /\ last.resolved = 0
    /\ ~is_embedded(last.table) /\ last.value.type # "Link"
    /\ Len(instrs) = 2 /\ instrs[1].type = "Update"
    /\ instrs[1].object = instrs[2].object /\ instrs[1].field = instrs[2].field
    /\ instrs[1].value.type # "Link"

\* The entry points that emit an instruction with a path.
PathOps ==
    FieldOps \cup {"list_set", "list_insert", "list_move", "list_erase",
                   "link_list_nullify", "list_clear", "dictionary_insert",
                   "dictionary_erase"}

\* Instruction i of the changeset created, with the identity Int64(k), the
\* object that the last call addresses.
CreatedAddressed(i) ==
    /\ instrs[i].type = "CreateObject" /\ instrs[i].object.kind = "Int64"
    /\ TableOfHandle(instrs[i].table) = Addressed.table
    /\ PkValue(Addressed.table, Addressed.key) = MixedInt(instrs[i].object.int)

\* C21: once CreateObject was emitted with the identity Int64(k), every later
\* field update, increment and collection instruction of the transaction that
\* is addressed at that object carries the same class name and the identity
\* Int64(k), whatever tables and objects were addressed in between.
C21_IdentityReused ==
    (last.op \in PathOps /\ last.emitted = 1) =>
        \A i \in 1..(Len(instrs) - 1) :
            CreatedAddressed(i) =>
                /\ LastInstr.table = instrs[i].table
                /\ LastInstr.object = instrs[i].object

\* An object was created with the key 7, a field of an object of another
\* table was set, then a field of the created object.
C21_Witness ==
    /\ Len(instrs) = 3 /\ CreatedAddressed(1)
    /\ instrs[1].object = Int64Pk(7)
    /\ instrs[2].type = "Update" /\ instrs[2].table # instrs[1].table
    /\ last.op = "set" /\ last.emitted = 1 /\ last.table = tPerson

NamedIn(strs, handle, str) == handle \in 1..Len(strs) /\ strs[handle] = str

\* The bytes of a string payload in the buffer buf.
BytesIn(buf, range) == SubSeq(buf, range.offset + 1, range.offset + range.size)

\* The first instruction of a transaction was the creation of the object 7
\* of class_P, and the next call sets its field name to "Ann".
CreateThenSet ==
    /\ last.op = "create_object_with_primary_key" /\ last.table = tPerson
    /\ last.value = MixedInt(7) /\ last.emitted = 1 /\ Len(instrs) = 1
    /\ (last').op = "set" /\ (last').table = tPerson /\ (last').key = 1
    /\ (last').col = 2 /\ (last').value = MixedString(sAnn)

\* C22: create_object_with_primary_key on class_P with Int 7 followed by set
\* of the column name of that object to "Ann" leaves exactly two instructions
\* in the changeset: CreateObject{table P, object Int64(7)} and Update{table
\* P, object Int64(7), field name, no path, value String "Ann"}; the class
\* name is the table name without "class_".
C22_CreateThenSet ==
    [][CreateThenSet =>
           /\ (last').outcome = "ok" /\ Len(instrs') = 2
           /\ instrs'[1].type = "CreateObject"
           /\ NamedIn(strings', instrs'[1].table, <<"P">>)
           /\ instrs'[1].object = Int64Pk(7)
           /\ instrs'[2].type = "Update"
           /\ NamedIn(strings', instrs'[2].table, <<"P">>)
           /\ instrs'[2].object = Int64Pk(7)
           /\ NamedIn(strings', instrs'[2].field, sName)
           /\ instrs'[2].path = <<>>
           /\ instrs'[2].value.type = "String"
           /\ BytesIn(buffer', instrs'[2].value.range) = sAnn]_vars

\* The two calls were the only ones of the transaction: two strings are
\* interned and the buffer holds the three bytes of the value.
C22_Witness ==
    /\ last.op = "set" /\ last.table = tPerson /\ last.key = 1 /\ last.col = 2
    /\ last.value = MixedString(sAnn) /\ last.emitted = 1
    /\ Len(instrs) = 2 /\ instrs[1].type = "CreateObject"
    /\ instrs[1].object = Int64Pk(7)
    /\ strings = << <<"P">>, sName >> /\ buffer = sAnn

InsertOps == {"list_insert", "dictionary_insert"}
EraseOps == {"list_erase", "link_list_nullify", "dictionary_erase"}

\* The size the collection had before the mutation, when the callback runs
\* after the mutation was applied.
SizeBeforeApplied ==
    IF last.op \in InsertOps THEN last.size - 1 ELSE last.size + 1

SchemaOps ==
    {"add_class", "add_class_with_primary_key", "insert_column", "erase_column",
     "erase_group_level_table"}

SchemaInstr(op) ==
    IF op \in {"add_class", "add_class_with_primary_key"} THEN "AddTable"
    ELSE IF op = "insert_column" THEN "AddColumn"
    ELSE IF op = "erase_column" THEN "EraseColumn"
    ELSE "EraseTable"

\* C24: a schema callback emits nothing for a table whose name does not
\* start with "class_"; what it emits for a table whose name does is its own
\* instruction (AddTable, AddColumn, EraseColumn, EraseTable), naming the
\* class of that table.
C24_SchemaOnlyReplicated ==
    last.op \in SchemaOps =>
        /\ ~Replicated(last.table) => last.emitted = 0
        /\ last.emitted = 1 =>
               /\ LastInstr.type = SchemaInstr(last.op)
               /\ Named(LastInstr.table, table_name_to_class_name(last.table))

\* A column was added to a table that is not replicated, after a class was
\* added.
C24_Witness ==
    /\ last.op = "insert_column" /\ last.table = tMeta /\ last.emitted = 0
    /\ last.outcome = "ok" /\ ~m_short_circuit
    /\ Len(instrs) = 1 /\ instrs[1].type = "AddTable"

\* The row holds null in a primary key column that is not nullable.
BrokenRow(table, key) ==
    /\ get_primary_key_column(table) # NullColKey
    /\ ~PkColumn(table).nullable
    /\ value_is_null(PkValue(table, key))

\* The last call had to resolve the identity of such a row: the object it
\* addresses, or the target of the link it stores.
ResolvedBrokenRow ==
    /\ last.op \in PathOps \cup {"remove_object"}
    /\ Replicated(last.table) /\ ~m_short_circuit
    /\ \/ BrokenRow(Addressed.table, Addressed.key)
       \/ /\ last.value.type = "Link"
          /\ BrokenRow(get_link_target(last.table, last.col), last.value.key)

\* C25 as stated: resolving the identity of a row that holds null in a
\* primary key column that is not nullable is a fatal failure and emits
\* nothing, and no instruction addresses an object or a link target of a
\* table with such a column by the identity Null.
C25_NullKeyFails ==
    /\ ResolvedBrokenRow => (last.outcome = "fatal" /\ last.emitted = 0)
    /\ \A i \in 1..Len(instrs) :
           /\ instrs[i].object = NullPk =>
                  PkColumn(TableOfHandle(instrs[i].table)).nullable
           /\ (instrs[i].value.type = "Link" /\ instrs[i].value.target = NullPk)
                  => PkColumn(TableOfHandle(instrs[i].value.target_table)).nullable

\* C26 as stated: a set, list or dictionary call whose value is of a kind
\* without replication representation (Mixed, OldTable, OldDateTime,
\* LinkList) raises UnsupportedInstruction and emits nothing.
C26_LegacyValueRaises ==
    (last.op \in {"set", "list_set", "list_insert", "dictionary_insert"}
         /\ last.value.type \in LegacyTypes
         /\ Replicated(last.table) /\ ~m_short_circuit)
        => (last.outcome = "unsupported" /\ last.emitted = 0)

\* The types a primary key can have.
KeyTypes == {"Int", "String", "ObjectId"}

\* C27: the primary key value of a created object is translated to Null for
\* null, Int64 for Int, the interned string for String and ObjectId for
\* ObjectId, and a value of any other type raises UnsupportedInstruction;
\* add_class_with_primary_key emits AddTable with the declared key type when
\* it is Int, String or ObjectId and otherwise raises UnsupportedInstruction
\* and emits nothing.
C27_KeyTranslation ==
    /\ (CreatedWithKey
            /\ (IF value_is_null(last.value) THEN PkColumn(last.table).nullable
                ELSE last.value.type = PkColumn(last.table).type))
           => IF value_is_null(last.value) \/ last.value.type \in KeyTypes
              THEN /\ last.outcome = "ok" /\ last.emitted = 1
                   /\ LastInstr.type = "CreateObject"
                   /\ IF value_is_null(last.value)
                      THEN LastInstr.object = NullPk
                      ELSE IF last.value.type = "Int"
                      THEN LastInstr.object = Int64Pk(last.value.int)
                      ELSE IF last.value.type = "String"
                      THEN /\ LastInstr.object.kind = "InternString"
                           /\ Named(LastInstr.object.int, last.value.str)
                      ELSE LastInstr.object = ObjectIdPk(last.value.int)
              ELSE last.outcome = "unsupported" /\ last.emitted = 0
    /\ (last.op = "add_class_with_primary_key" /\ Replicated(last.table)
            /\ ~m_short_circuit)
           => IF last.value.type \in KeyTypes
              THEN /\ last.outcome = "ok" /\ last.emitted = 1
                   /\ LastInstr.type = "AddTable"
                   /\ LastInstr.spec[1] = "PrimaryKeySpec"
                   /\ LastInstr.spec[3] = last.value.type
              ELSE last.outcome = "unsupported" /\ last.emitted = 0

\* Objects were created with a String key and with an ObjectId key, then the
\* creation of one with a Bool key was refused.
C27_Witness ==
    /\ CreatedWithKey /\ last.table = tFlag /\ last.value = MixedBool
    /\ last.outcome = "unsupported" /\ Len(instrs) = 2
    /\ instrs[1].object.kind = "InternString"
    /\ instrs[2].object.kind = "ObjectId"

DictionaryOps == {"dictionary_insert", "dictionary_erase"}

\* C28 as stated: a dictionary insert or erase whose key is not a string
\* raises UnsupportedInstruction and emits nothing.
C28_NonStringKeyRaises ==
    (last.op \in DictionaryOps /\ last.entry.type # "String"
         /\ Replicated(last.table) /\ ~m_short_circuit)
        => (last.outcome = "unsupported" /\ last.emitted = 0)

\* The path of the field col of a row from the top object down, names
\* looked up in the storage engine.
FieldPath(table, key, col) ==
    (IF is_embedded(table) THEN OwnerComponents(table, key) ELSE <<>>)
    \o <<[kind |-> "field", name |-> get_column_name(table, col)]>>

\* C29: a DictionaryInsert or DictionaryErase instruction addresses its
\* entry by the path of the dictionary field, with the prefix of an embedded
\* object, followed by one more component, the interned key; no index stands
\* for the key.
C29_DictionaryPath ==
    (last.op \in DictionaryOps /\ last.emitted = 1) =>
        /\ LastInstr.type = (IF last.op = "dictionary_insert"
                             THEN "DictionaryInsert" ELSE "DictionaryErase")
        /\ DecodedPath(LastInstr) =
               FieldPath(last.table, last.key, last.col)
               \o <<[kind |-> "field", name |-> last.entry.str]>>

\* An entry of a dictionary of a top object was inserted, then an entry of a
\* dictionary of an embedded object two levels down was erased.
C29_Witness ==
    /\ last.op = "dictionary_erase" /\ last.table = tAddr /\ last.emitted = 1
    /\ Len(instrs) >= 2 /\ instrs[Len(instrs) - 1].type = "DictionaryInsert"
    /\ instrs[Len(instrs) - 1].path # <<>>
    /\ DecodedPath(LastInstr) =
           <<[kind |-> "field", name |-> sItems], [kind |-> "index", int |-> 3],
             [kind |-> "field", name |-> sSub], [kind |-> "field", name |-> sTags],
             [kind |-> "field", name |-> sAnn]>>

\* C30: erase_column on the primary key column of a replicated table that
\* is not being erased ends in a fatal failure and emits nothing, and no
\* EraseColumn of the changeset names the primary key column of its table.
C30_NoKeyColumnErased ==
    /\ (last.op = "erase_column" /\ Replicated(last.table) /\ ~m_short_circuit
            /\ last.col = get_primary_key_column(last.table)
            /\ last.table # m_table_being_erased)
           => (last.outcome = "fatal" /\ last.emitted = 0)
    /\ \A i \in 1..Len(instrs) :
           (instrs[i].type = "EraseColumn"
                /\ get_primary_key_column(TableOfHandle(instrs[i].table))
                       # NullColKey)
               => ~Named(instrs[i].field,
                         PkColumn(TableOfHandle(instrs[i].table)).name)

\* A column of class_P was erased, then the erasure of its key column was
\* reported.
C30_Witness ==
    /\ last.op = "erase_column" /\ last.table = tPerson
    /\ last.col = get_primary_key_column(tPerson) /\ last.outcome = "fatal"
    /\ Len(instrs) = 1 /\ instrs[1].type = "EraseColumn"
    /\ m_table_being_erased = sEmpty

\* The last call reported a column erasure that the emitter looks at:
\* replication in effect, on a replicated table.
ColumnErasureSeen ==
    /\ last.op = "erase_column" /\ Replicated(last.table) /\ ~m_short_circuit

\* C31: with replication in effect, prepare_erase_table(T) sets the marker
\* to T; while the marker names T every erase_column on T returns normally
\* and emits nothing; erase_group_level_table(T) emits one EraseTable naming
\* the class of T and clears the marker; an erase_column on a table the
\* marker does not name (another table, or any table once the erasure is
\* complete) emits EraseColumn for a column that is not the primary key.
C31_ErasureProtocol ==
    /\ (last.op = "prepare_erase_table" /\ last.outcome = "ok")
           => m_table_being_erased = last.table
    /\ (ColumnErasureSeen /\ last.table = m_table_being_erased)
           => (last.outcome = "ok" /\ last.emitted = 0)
    /\ (last.op = "erase_group_level_table" /\ Replicated(last.table)
            /\ last.outcome = "ok")
           => /\ m_table_being_erased = sEmpty
              /\ ~m_short_circuit =>
                     /\ last.emitted = 1 /\ LastInstr.type = "EraseTable"
                     /\ Named(LastInstr.table,
                              table_name_to_class_name(last.table))
    /\ (ColumnErasureSeen /\ last.table # m_table_being_erased
            /\ last.col # get_primary_key_column(last.table))
           => /\ last.outcome = "ok" /\ last.emitted = 1
              /\ LastInstr.type = "EraseColumn"
              /\ Named(LastInstr.table, table_name_to_class_name(last.table))
              /\ Named(LastInstr.field,
                       get_column_name(last.table, last.col))

\* The erasure of class_P was completed, and a column of class_P erased
\* after it was emitted again.
C31_Witness ==
    /\ ColumnErasureSeen /\ last.table = tPerson /\ last.emitted = 1
    /\ Len(instrs) = 2 /\ instrs[1].type = "EraseTable"
    /\ instrs[1].table = instrs[2].table /\ instrs[2].type = "EraseColumn"
    /\ m_table_being_erased = sEmpty

\* C32 as stated: when a transaction starts the marker of the table being
\* erased is empty, so that prepare_erase_table fails its assertion only
\* after a prepare_erase_table of the same transaction, and erase_column is
\* suppressed only after one.
C32_MarkerEmptyAtStart ==
    /\ last.op = "do_initiate_transact" => m_table_being_erased = sEmpty
    /\ (last.op = "prepare_erase_table" /\ Replicated(last.table)
            /\ last.outcome = "fatal")
           => prepared_in_txn
    /\ (ColumnErasureSeen /\ last.outcome = "ok" /\ last.emitted = 0)
           => prepared_in_txn

\* What the selection cache holds is what the storage engine and the
\* interning table hold for the cached table, object and field.
CacheConsistent ==
    m_last_table # NullTable =>
        /\ Replicated(m_last_table)
        /\ Named(m_last_class_name, table_name_to_class_name(m_last_table))
        /\ m_last_object # NullObjKey =>
               IdentityIs(m_last_primary_key, m_last_table, m_last_object)
        /\ m_last_field # NullColKey =>
               Named(m_last_field_name,
                     get_column_name(m_last_table, m_last_field))

\* The entry points that select the table and address no field.
SelectOnlyOps ==
    {"create_object", "create_object_with_primary_key", "insert_column",
     "erase_column", "remove_object"}

\* A call that only selects has put another table into the cache.
SelectedOtherTable ==
    /\ (last').op \in SelectOnlyOps
    /\ m_last_table' # NullTable /\ m_last_table' # m_last_table

\* C33: whenever the cache holds a table, the cached class name is the
\* interned class name of that table, the cached identity is the identity of
\* the cached object in it and the cached field name is the name of the
\* cached column in it; a call that selects another table leaves no object,
\* identity and field in the cache, and erase_group_level_table leaves no
\* table in it.
C33_CacheConsistent ==
    /\ []CacheConsistent
    /\ [][/\ SelectedOtherTable =>
                 /\ m_last_object' = NullObjKey
                 /\ m_last_primary_key' = NoKey
                 /\ m_last_field' = NullColKey
          /\ ((last').op = "erase_group_level_table" /\ (last').outcome = "ok")
                 => m_last_table' = NullTable]_vars

\* The cache holds the object and the field of a second table, after an
\* instruction on a first one.
C33_Witness ==
    /\ m_last_table # NullTable /\ m_last_object # NullObjKey
    /\ m_last_field # NullColKey /\ m_last_primary_key.kind = "Int64"
    /\ Len(instrs) = 2 /\ instrs[1].table # instrs[2].table
    /\ instrs[1].field # npos /\ instrs[1].object.kind = "GlobalKey"
    /\ instrs[2].table = m_last_class_name

\* C34 as stated: a call that raises UnsupportedInstruction leaves the
\* interning table and the byte buffer of the changeset, like the
\* instruction sequence, as they were before the call.
C34_UnsupportedLeavesNoTrace ==
    [][(last').outcome = "unsupported" =>
           /\ instrs' = instrs
           /\ strings' = strings
           /\ buffer' = buffer]_vars

\* The selection cache.
Cache ==
    <<m_last_table, m_last_object, m_last_field, m_last_class_name,
      m_last_primary_key, m_last_field_name>>

\* The selection cache apart from the cached table.
CacheBesideTable ==
    <<m_last_object, m_last_field, m_last_class_name, m_last_primary_key,
      m_last_field_name>>

\* An entry point is called while replication is short-circuited.
ShortCircuitedCall == m_short_circuit /\ (last').op \in EmitterOps

\* C35 as stated: a call made while replication is short-circuited appends
\* no instruction and leaves the selection cache as it was.
C35_ShortCircuitFreezes ==
    [][ShortCircuitedCall => (instrs' = instrs /\ Cache' = Cache)]_vars

\* The last call changed a field of an object of a replicated table, and
\* emitted the instruction with the class name, the identity and the field
\* name of that table, object and column.
FieldChangeEmitted ==
    (last.op \in FieldOps /\ Replicated(last.table) /\ last.outcome = "ok"
         /\ ~is_unresolved_link(last.value))
        => /\ last.emitted = 1
           /\ Named(LastInstr.table, table_name_to_class_name(Addressed.table))
           /\ IdentityIs(LastInstr.object, Addressed.table, Addressed.key)
           /\ Named(LastInstr.field,
                    get_column_name(Addressed.table, Addressed.col))

\* C35: a call made while replication is short-circuited appends no
\* instruction, interns nothing and leaves the selection cache as it was,
\* except that erase_group_level_table clears the cached table; the first
\* call after short-circuiting has ended emits with the class name and the
\* identity of the table and object it is about.
C35_ShortCircuitSilent ==
    [][/\ ShortCircuitedCall =>
              /\ instrs' = instrs /\ strings' = strings /\ buffer' = buffer
              /\ CacheBesideTable' = CacheBesideTable
              /\ m_last_table' =
                     (IF (last').op = "erase_group_level_table"
                          /\ (last').outcome = "ok"
                      THEN NullTable ELSE m_last_table)
       /\ (last.op = "set_short_circuit" /\ ~m_short_circuit)
              => FieldChangeEmitted']_vars

\* While short-circuited, a field was set in a replicated table other than
\* the one in the cache: nothing was emitted and the cache still holds the
\* table, the object and the field of the instruction before.
C35_Witness ==
    /\ m_short_circuit /\ last.op = "set" /\ Replicated(last.table)
    /\ last.outcome = "ok" /\ last.emitted = 0 /\ Len(instrs) = 1
    /\ m_last_table # NullTable /\ m_last_table # last.table
    /\ m_last_object # NullObjKey /\ m_last_field # NullColKey

LinkOps == {"set", "list_set", "list_insert", "dictionary_insert"}

\* The last call stored a link to an object of a replicated table, not
\* embedded, other than the table of the owner.
LinkStored ==
    /\ last.op \in LinkOps /\ last.outcome = "ok"
    /\ Replicated(last.table) /\ ~is_embedded(last.table)
    /\ last.value.type = "Link" /\ ~is_unresolved(last.value.key)
    /\ Replicated(get_link_target(last.table, last.col))
    /\ ~is_embedded(get_link_target(last.table, last.col))
    /\ get_link_target(last.table, last.col) # last.table

\* The instruction of the last call names the class and the identity of the
\* object the call addresses.
OwnerHeader ==
    /\ Named(LastInstr.table, table_name_to_class_name(Addressed.table))
    /\ IdentityIs(LastInstr.object, Addressed.table, Addressed.key)

\* C36: set, list_set, list_insert and dictionary_insert of a link to an
\* object of another replicated table emit one instruction whose table and
\* object are the class name and the identity of the owner and whose Link
\* payload holds the class name and the identity of the target; the next
\* instruction on the owner carries the owner's class name and identity
\* again, although resolving the target has left the target table in the
\* cache.
C36_LinkKeepsOwner ==
    /\ [](LinkStored =>
              /\ last.emitted = 1 /\ OwnerHeader
              /\ LastInstr.value.type = "Link"
              /\ Named(LastInstr.value.target_table,
                       table_name_to_class_name(
                           get_link_target(last.table, last.col)))
              /\ IdentityIs(LastInstr.value.target,
                            get_link_target(last.table, last.col),
                            last.value.key)
              /\ m_last_table = get_link_target(last.table, last.col))
    /\ [][(LinkStored /\ (last').op \in PathOps /\ (last').table = last.table
               /\ (last').emitted = 1)
              => OwnerHeader']_vars

\* A link to an object of class_P was put into a dictionary of an object of
\* class_D, then a field of that object was incremented: both instructions
\* carry the class and identity of the owner.
C36_Witness ==
    /\ Len(instrs) = 2 /\ instrs[1].type = "DictionaryInsert"
    /\ instrs[1].value.type = "Link"
    /\ instrs[1].value.target_table # instrs[1].table
    /\ instrs[1].value.target.kind = "Int64"
    /\ last.op = "add_int" /\ last.table = tDog /\ last.emitted = 1
    /\ instrs[2].table = instrs[1].table /\ instrs[2].object = instrs[1].object
    /\ instrs[2].object.kind = "GlobalKey"

\* C37: with replication in effect, add_class on a replicated table emits
\* one AddTable naming the class: for a table that is not embedded with a
\* primary key spec whose field is the interned empty string, whose type is
\* GlobalKey and which is not nullable; for an embedded table of the
\* embedded kind, without primary key spec.
C37_AddClass ==
    (last.op = "add_class" /\ Replicated(last.table) /\ ~m_short_circuit) =>
        /\ last.outcome = "ok" /\ last.emitted = 1
        /\ LastInstr.type = "AddTable"
        /\ Named(LastInstr.table, table_name_to_class_name(last.table))
        /\ IF is_embedded(last.table)
           THEN LastInstr.spec = <<"EmbeddedTable">>
           ELSE /\ Len(LastInstr.spec) = 4
                /\ LastInstr.spec[1] = "PrimaryKeySpec"
                /\ Named(LastInstr.spec[2], sEmpty)
                /\ LastInstr.spec[3] = "GlobalKey"
                /\ LastInstr.spec[4] = FALSE

\* A class that is not embedded was added, then an embedded one.
C37_Witness ==
    /\ last.op = "add_class" /\ last.table = tAddr /\ last.emitted = 1
    /\ Len(instrs) = 2 /\ instrs[1].type = "AddTable"
    /\ instrs[1].spec[1] = "PrimaryKeySpec" /\ instrs[1].spec[3] = "GlobalKey"
    /\ instrs[2].spec = <<"EmbeddedTable">>

\* The last call was made with replication in effect on a replicated table.
SeenBy(op) == last.op = op /\ Replicated(last.table) /\ ~m_short_circuit

\* C38: with replication in effect on a replicated table, nullify_link
\* emits one Update addressed at the field of the object (for an embedded
\* object by the path from the top object), with the Null payload, not a
\* default, and no index at the end of the path; link_list_nullify emits one
\* ArrayErase addressed at the list with the given index at the end of the
\* path, whose prior_size is the size the list has when the call is made.
C38_Nullify ==
    /\ SeenBy("nullify_link") =>
           /\ last.outcome = "ok" /\ last.emitted = 1
           /\ LastInstr.type = "Update" /\ OwnerHeader
           /\ LastInstr.value = NullPayload /\ LastInstr.is_default = FALSE
           /\ DecodedPath(LastInstr) = FieldPath(last.table, last.key, last.col)
    /\ SeenBy("link_list_nullify") =>
           /\ last.outcome = "ok" /\ last.emitted = 1
           /\ LastInstr.type = "ArrayErase" /\ OwnerHeader
           /\ LastInstr.prior_size = last.size
           /\ DecodedPath(LastInstr) =
                  FieldPath(last.table, last.key, last.col)
                  \o <<[kind |-> "index", int |-> last.ndx]>>

\* A link field of an embedded object was nullified, then the second
\* element of a list of two links.
C38_Witness ==
    /\ SeenBy("link_list_nullify") /\ last.emitted = 1 /\ Len(instrs) = 2
    /\ instrs[1].type = "Update" /\ instrs[1].value = NullPayload
    /\ Len(instrs[1].path) = 2 /\ instrs[1].path[2].kind = "field"
    /\ instrs[2].type = "ArrayErase" /\ instrs[2].prior_size = 2
    /\ instrs[2].path = <<IndexComponent(1)>>

\* payload is the translation of the value stored in the column col of
\* table: the value itself, a string by its bytes in the buffer, a link by
\* the class name and the identity of its target.
PayloadIs(payload, table, col, value) ==
    IF value_is_null(value) THEN payload = NullPayload
    ELSE IF value.type = "Int" THEN payload = IntPayload(value.int)
    ELSE IF value.type = "String"
    THEN payload.type = "String" /\ BytesIn(buffer, payload.range) = value.str
    ELSE IF value.type = "Link" THEN
        IF is_embedded(get_link_target(table, col))
        THEN payload = ObjectValuePayload
        ELSE /\ payload.type = "Link"
             /\ Named(payload.target_table,
                      table_name_to_class_name(get_link_target(table, col)))
             /\ IdentityIs(payload.target, get_link_target(table, col),
                           value.key)
    ELSE FALSE

\* The last call stored a value with replication in effect on a replicated
\* table, and returned normally.
Stored(op) ==
    /\ SeenBy(op) /\ last.outcome = "ok" /\ ~is_unresolved_link(last.value)

\* C39: with replication in effect on a replicated table, list_set emits one
\* Update whose path ends with the index of the element, with the translated
\* value and the size the list has at the call as prior_size; set emits one
\* Update whose path ends with the field, without index, with the translated
\* value, and is_default is true exactly when the variant is SetDefault.
C39_UpdateKinds ==
    /\ Stored("list_set") =>
           /\ last.emitted = 1 /\ LastInstr.type = "Update" /\ OwnerHeader
           /\ is_array_update(LastInstr)
           /\ DecodedPath(LastInstr) =
                  FieldPath(last.table, last.key, last.col)
                  \o <<[kind |-> "index", int |-> last.ndx]>>
           /\ PayloadIs(LastInstr.value, last.table, last.col, last.value)
           /\ LastInstr.prior_size = last.size
    /\ Stored("set") =>
           /\ last.emitted = 1 /\ LastInstr.type = "Update" /\ OwnerHeader
           /\ ~is_array_update(LastInstr)
           /\ DecodedPath(LastInstr) = FieldPath(last.table, last.key, last.col)
           /\ PayloadIs(LastInstr.value, last.table, last.col, last.value)
           /\ LastInstr.is_default = (last.variant = "instr_SetDefault")

\* A default value was set in a field, then the second element of a list of
\* two was set.
C39_Witness ==
    /\ Stored("list_set") /\ last.emitted = 1 /\ Len(instrs) = 2
    /\ instrs[1].type = "Update" /\ instrs[1].is_default
    /\ instrs[1].path = <<>> /\ instrs[1].value.type = "String"
    /\ instrs[2].type = "Update" /\ ~instrs[2].is_default
    /\ instrs[2].path = <<IndexComponent(1)>> /\ instrs[2].prior_size = 2
    /\ instrs[2].value.type = "Link"

=============================================================================
